---- MODULE Spec2Model ----
(***************************************************************************)
(* A model of robodm's trajectory container (robodm/trajectory.py): the    *)
(* writer (add, add_by_dict, init_feature_streams, the stream-adding       *)
(* remux, close and its close-time transcoder), the reader                 *)
(* (_load_from_container) and the decoded cache (load, _write_to_cache).   *)
(*                                                                         *)
(* The file system holds three files: the container at the trajectory's    *)
(* path, the file at path + ".temp" and the decoded cache file.  A         *)
(* container is a sequence of streams and the sequence of packets muxed    *)
(* into it.  A feature name is the sequence of its separator-delimited     *)
(* components: <<"p", "x">> is the Python string "p/x".                    *)
(***************************************************************************)
EXTENDS Integers, Sequences, FiniteSets, TLC

VARIABLES fs, traj, now, ret, calls, hist

vars == <<fs, traj, now, ret, calls, hist>>

---------------------------------------------------------------------------
(* Bounds of the model. *)

\* the wall clock runs from 0 to MaxTime milliseconds after start_time
MaxTime == 1
\* most add and add_by_dict calls of a run; a writer is opened or given
\* streams only while some of them remain
MaxCalls == 2
\* most steps handed to from_list_of_dicts
MaxSteps == 2
\* frames the lossy encoder holds back before it emits its first packet
EncoderLag == 1

---------------------------------------------------------------------------
(* Program constants. *)

\* _get_encoding_of_feature: both leading dims must reach this for video
MinImageDim == 100
\* _add_stream_to_container: stream.time_base = Fraction(1, 1000)
TimeBaseDen == 1000

\* a timestamp argument that was not supplied (timestamp=None), and the
\* pts/dts of the demuxer's end-of-stream packets (None)
NoTs == -1

---------------------------------------------------------------------------
(* Values, feature names and step maps the callers pass in. *)

NameA == <<"a">>
NamePX == <<"p", "x">>
Names == {NameA, NamePX}

V1 == [dtype |-> "float64", shape |-> <<>>, x |-> 1]
V2 == [dtype |-> "float64", shape |-> <<>>, x |-> 2]
VImg == [dtype |-> "uint8", shape |-> <<100, 100, 3>>, x |-> 7]
Values == {V1, V2, VImg}

\* a node of a (possibly nested) Python dict, or a non-dict leaf value;
\* a dict keeps its items in insertion order
Leaf(v) == [isdict |-> FALSE, val |-> v, items |-> <<>>]
Dict(items) == [isdict |-> TRUE, val |-> V1, items |-> items]

\* the step maps add_by_dict is given: {a: 1.0, p/x: 2.0}, {p: {x: 1.0}},
\* {p: {x: 2.0}} and {a: image}
StepMaps ==
    { Dict(<<<<NameA, Leaf(V1)>>, <<NamePX, Leaf(V2)>>>>),
      Dict(<<<<(<<"p">>), Dict(<<<<(<<"x">>), Leaf(V1)>>>>)>>>>),
      Dict(<<<<(<<"p">>), Dict(<<<<(<<"x">>), Leaf(V2)>>>>)>>>>),
      Dict(<<<<NameA, Leaf(VImg)>>>>) }

\* an image of another shape, and a float32 depth image
VWide == [dtype |-> "uint8", shape |-> <<100, 200, 3>>, x |-> 7]
VDepth == [dtype |-> "float32", shape |-> <<100, 100>>, x |-> 1]

\* the column maps from_dict_of_lists is given: {a: [1.0, 2.0]},
\* {a: [1.0], p: {x: [2.0]}}, {a: [1.0, 2.0], p/x: [2.0]}, {}, {a: []},
\* {a: [image]}, {a: [depth image]} and {a: [image, wide image]}
ColumnMaps ==
    { Dict(<<<<NameA, Leaf(<<V1, V2>>)>>>>),
      Dict(<<<<NameA, Leaf(<<V1>>)>>,
             <<(<<"p">>), Dict(<<<<(<<"x">>), Leaf(<<V2>>)>>>>)>>>>),
      Dict(<<<<NameA, Leaf(<<V1, V2>>)>>, <<NamePX, Leaf(<<V2>>)>>>>),
      Dict(<<>>),
      Dict(<<<<NameA, Leaf(<<>>)>>>>),
      Dict(<<<<NameA, Leaf(<<VImg>>)>>>>),
      Dict(<<<<NameA, Leaf(<<VDepth>>)>>>>),
      Dict(<<<<NameA, Leaf(<<VImg, VWide>>)>>>>) }

---------------------------------------------------------------------------
(* FeatureType (robodm/feature.py) and the Codec Selector. *)

\* FeatureType.from_data: the dtype and shape of a sample value
from_data(v) == [dtype |-> v.dtype, shape |-> v.shape]

\* str(feature_type), the FEATURE_TYPE metadata form, and its parser
to_str(ft) == <<"dtype", ft.dtype, "shape", ft.shape>>
from_str(str) == [dtype |-> str[2], shape |-> str[4]]

\* the Codec Selector looking at the first dim only
get_encoding_by_first_dim(lossy, ft) ==
    IF Len(ft.shape) >= 2 /\ ft.shape[1] >= MinImageDim
    THEN IF lossy THEN "libaom-av1" ELSE "ffv1"
    ELSE "rawvideo"

get_encoding_of_feature(lossy, ft) ==
    IF Len(ft.shape) >= 2 /\ ft.shape[1] >= MinImageDim /\ ft.shape[2] >= MinImageDim
    THEN IF lossy THEN "libaom-av1" ELSE "ffv1"
    ELSE "rawvideo"

IsVideo(codec) == codec \in {"ffv1", "libaom-av1"}

---------------------------------------------------------------------------
(* _flatten_dict. *)

RECURSIVE flatten_dict(_, _)
\* the (key, value) items of dict node d under parent_key, in iteration
\* order: new_key = parent_key + sep + k
flatten_dict(d, parent_key) ==
    LET RECURSIVE walk(_)
        walk(i) ==
            IF i > Len(d.items) THEN <<>>
            ELSE LET k == d.items[i][1]
                     v == d.items[i][2]
                     new_key == parent_key \o k
                 IN  (IF v.isdict THEN flatten_dict(v, new_key)
                      ELSE <<<<new_key, v.val>>>>) \o walk(i + 1)
    IN  walk(1)

---------------------------------------------------------------------------
(* Containers, streams and packets (the part of PyAV the code relies on). *)

NoFile == [exists |-> FALSE, streams |-> <<>>, pkts |-> <<>>]
\* av.open(path, mode="w"): a fresh output container.  PyAV opens the file
\* at path when it writes the header, at the first packet muxed: until then
\* the container and its streams live in memory only, and what was at path
\* stays (the hello_world example reopens a closed file in the default
\* mode "w" and loads it)
EmptyContainer == [exists |-> TRUE, streams |-> <<>>, pkts |-> <<>>]
\* what an output container c leaves at its path
OnDisk(c) == IF c.pkts = <<>> THEN NoFile ELSE c

EmptyMap == [n \in {} |-> 0]
Put(f, k, v) == [n \in DOMAIN f \cup {k} |-> IF n = k THEN v ELSE f[n]]

\* stream.metadata.get(key): None is modelled by HasMeta being false
HasMeta(stream, key) == key \in DOMAIN stream.meta

\* the end-of-stream packet container.demux() yields per stream: no pts, no
\* dts, no bytes
FlushPacket(i) ==
    [stream |-> i, pts |-> NoTs, dts |-> NoTs, body |-> [kind |-> "empty", val |-> V1]]

\* container.demux(streams): the muxed packets, then one end-of-stream
\* packet per stream
demux(c) == c.pkts \o [i \in 1..Len(c.streams) |-> FlushPacket(i)]

\* container.mux(packet)
mux(c, packet) == [c EXCEPT !.pkts = Append(@, packet)]

RECURSIVE mux_all(_, _)
mux_all(c, packets) ==
    IF packets = <<>> THEN c ELSE mux_all(mux(c, Head(packets)), Tail(packets))

\* add_stream_plain with the time base left as add_stream set it
add_stream_default_time_base(container, feature_name, encoding, feature_type) ==
    [container EXCEPT !.streams =
        Append(@, [codec |-> encoding, width |-> 0, height |-> 0, tb |-> 1,
                   meta |-> [k \in {"FEATURE_NAME", "FEATURE_TYPE"} |->
                                IF k = "FEATURE_NAME" THEN feature_name
                                ELSE <<"dtype", feature_type.dtype, "shape",
                                       feature_type.shape>>]])]

\* the stream a new container gets from container.add_stream(encoding)
\* followed by the assignments of _add_stream_to_container
add_stream_plain(container, feature_name, encoding, feature_type) ==
    LET video == IsVideo(encoding)
        stream == [codec |-> encoding,
                   width |-> IF video THEN feature_type.shape[2] ELSE 0,
                   height |-> IF video THEN feature_type.shape[1] ELSE 0,
                   tb |-> TimeBaseDen,
                   meta |-> [k \in {"FEATURE_NAME", "FEATURE_TYPE"} |->
                                IF k = "FEATURE_NAME" THEN feature_name
                                ELSE to_str(feature_type)]]
    IN  [container EXCEPT !.streams = Append(@, stream)]

\* _add_stream_to_container: [c: the container with the stream added,
\* err: "IndexError" when a video codec meets a shape without two dims]
add_stream_to_container(container, feature_name, encoding, feature_type) ==
    IF IsVideo(encoding) /\ Len(feature_type.shape) < 2
    THEN [c |-> container, err |-> "IndexError"]
    ELSE [c |-> add_stream_plain(container, feature_name, encoding, feature_type),
          err |-> "none"]

---------------------------------------------------------------------------
(* The Frame Codec: _create_frame, _create_frame_depth, _encode_frame. *)

\* astype(np.uint8): wraps modulo 2^8
CastU8(x) == x % 256

\* _create_frame: np.array(image, dtype=uint8) as an rgb24 frame; only an
\* (H, W, 3) array makes a frame
create_frame(data) ==
    IF Len(data.shape) = 3 /\ data.shape[3] = 3
    THEN [ok |-> TRUE, frame |-> [fmt |-> "rgb24", h |-> data.shape[1],
                                  w |-> data.shape[2], x |-> CastU8(data.x)]]
    ELSE [ok |-> FALSE, frame |-> [fmt |-> "rgb24", h |-> 0, w |-> 0, x |-> 0]]

\* _create_frame_depth: float32 is scaled by 255 and cast to uint8, a 3-D
\* array keeps its first channel; only a 2-D array makes a gray frame
create_frame_depth(data) ==
    LET x == IF data.dtype = "float32" THEN CastU8(data.x * 255) ELSE data.x
        n == IF Len(data.shape) = 3 THEN 2 ELSE Len(data.shape)
    IN  IF n = 2
        THEN [ok |-> TRUE, frame |-> [fmt |-> "gray", h |-> data.shape[1],
                                      w |-> data.shape[2], x |-> x]]
        ELSE [ok |-> FALSE, frame |-> [fmt |-> "gray", h |-> 0, w |-> 0, x |-> 0]]

\* a packet of stream i at timestamp ts
Packet(i, ts, body) == [stream |-> i, pts |-> ts, dts |-> ts, body |-> body]

\* pickle.dumps(data) as the packet's bytes, and pickle.loads of them
pickle_dumps(data) == [kind |-> "pickle", val |-> data]
IsPickle(body) == body.kind = "pickle"
pickle_loads(body) == body.val

\* stream.encode(frame) of a video encoder holding back the frames buf:
\* ffv1 emits every frame at once, libaom-av1 holds EncoderLag frames back
encoder_encode(codec, buf, frame) ==
    LET all == Append(buf, frame)
        lag == IF codec = "libaom-av1" THEN EncoderLag ELSE 0
    IN  IF Len(all) > lag
        THEN [out |-> <<Head(all)>>, buf |-> Tail(all)]
        ELSE [out |-> <<>>, buf |-> all]

\* the packets carrying frames, every one stamped pts = dts = ts
FramePackets(i, ts, frames) ==
    [k \in 1..Len(frames) |-> Packet(i, ts, [kind |-> "frame", val |-> frames[k]])]

\* _encode_frame(data, stream, timestamp) on stream i with the given codec
\* and encoder buffer: [packets, buf, err]
encode_frame(data, i, codec, buf, timestamp) ==
    IF IsVideo(codec)
    THEN LET made == IF from_data(data).dtype = "float32"
                     THEN create_frame_depth(data) ELSE create_frame(data)
             e == encoder_encode(codec, buf, made.frame)
         IN  IF made.ok
             THEN [packets |-> FramePackets(i, timestamp, e.out), buf |-> e.buf,
                   err |-> "none"]
             ELSE [packets |-> <<>>, buf |-> buf, err |-> "ValueError"]
    ELSE [packets |-> <<Packet(i, timestamp, pickle_dumps(data))>>, buf |-> buf,
          err |-> "none"]

---------------------------------------------------------------------------
(* The state the operations work on: the three files and the fields of    *)
(* the Trajectory instance, in one record s.                               *)
(*   file, temp   the container at path and at path + ".temp"              *)
(*   cache        the decoded cache file                                   *)
(*   hdf5         the file at the path handed to to_hdf5                   *)
(*   cont         self.container_file: "open" (an output container for     *)
(*                path), "closed" (a container object already closed),     *)
(*                "none" (None) or "unset" (read mode: never assigned)     *)
(*   started      the open container has written its header: the file at   *)
(*                path is its file                                         *)
(*   pending      the streams of an open container that has not started    *)
(*   enc          the frames each video encoder of the live container      *)
(*                holds back, by stream index                              *)
(*   f2s          feature_name_to_stream: the stream object of a feature:  *)
(*                its index, its codec, and whether it belongs to the      *)
(*                container self.container_file now refers to              *)
(*   f2t          feature_name_to_feature_type                             *)
(*   trajectory_data  self.trajectory_data                                 *)
(*   err          the exception the running operation has raised           *)
(***************************************************************************)

\* self.trajectory_data: None, or the map a load returned
NoData == [loaded |-> FALSE, val |-> << >>]

Raise(s, e) == [s EXCEPT !.err = e]
Ok(s) == s.err = "none"

\* the open output container of s: its streams and the packets muxed
Live(s) ==
    IF s.started THEN s.file
    ELSE [exists |-> TRUE, streams |-> s.pending, pkts |-> <<>>]

\* s with its open output container now being c: the first packet muxed
\* puts the container's file at path
Commit(s, c) ==
    IF c.pkts = <<>> THEN [s EXCEPT !.pending = c.streams, !.started = FALSE]
    ELSE [s EXCEPT !.file = c, !.pending = <<>>, !.started = TRUE]

\* av.open(path, mode="r"): the error it raises on file c, or "none"
open_read_err(c) ==
    IF ~c.exists THEN "FileNotFoundError"
    ELSE IF c.streams = <<>> THEN "InvalidDataError"
    ELSE "none"

NoBufs == [i \in {} |-> <<>>]
BufOf(enc, i) == IF i \in DOMAIN enc THEN enc[i] ELSE <<>>

RECURSIVE drain_streams(_, _, _, _)
\* for stream in container.streams: stream.encode(None), every packet
\* stamped ts and muxed; from stream index i on
drain_streams(c, enc, ts, i) ==
    IF i > Len(c.streams) THEN c
    ELSE drain_streams(mux_all(c, FramePackets(i, ts, BufOf(enc, i))), enc, ts, i + 1)

\* the stream objects the instance still holds after self.container_file
\* has moved on to another container (or to None)
Detach(f2s) == [n \in DOMAIN f2s |-> [f2s[n] EXCEPT !.cur = FALSE]]

---------------------------------------------------------------------------
(* _transcode_pickled_images. *)

\* stream.metadata of the original stream copied over the new stream's
copy_metadata(c, k, stream) ==
    [c EXCEPT !.streams[k].meta =
        [key \in DOMAIN @ \cup DOMAIN stream.meta |->
            IF key \in DOMAIN stream.meta THEN stream.meta[key] ELSE @[key]]]

\* rename_to_temp that loses the file instead of moving it aside
rename_to_nowhere(s) == [s EXCEPT !.temp = NoFile, !.file = NoFile]

\* os.rename(self.path, temp_path)
rename_to_temp(s) == [s EXCEPT !.temp = s.file, !.file = NoFile]

RECURSIVE transcode_streams(_, _, _)
\* lines 557-577: the new container gets a stream per original stream that
\* has a FEATURE_NAME, encoded as the Codec Selector says for the recorded
\* feature type, with the original metadata copied over.
\* st = [c: new container, map: original index -> new index, enc, i, err]
transcode_streams(s, original, st) ==
    IF st.i > Len(original.streams) \/ st.err # "none" THEN st
    ELSE LET stream == original.streams[st.i]
             stream_feature == stream.meta["FEATURE_NAME"]
             ft == s.f2t[stream_feature]
             r == add_stream_to_container(st.c, stream_feature,
                      get_encoding_of_feature(s.lossy, ft), ft)
             k == Len(r.c.streams)
         IN  IF ~HasMeta(stream, "FEATURE_NAME")
             THEN transcode_streams(s, original, [st EXCEPT !.i = @ + 1])
             ELSE IF stream_feature \notin DOMAIN s.f2t
             THEN [st EXCEPT !.err = "KeyError"]
             ELSE IF r.err # "none" THEN [st EXCEPT !.err = r.err]
             ELSE transcode_streams(s, original,
                    [st EXCEPT !.c = copy_metadata(r.c, k, stream), !.i = @ + 1,
                               !.map = Put(@, st.i, k)])

RECURSIVE transcode_packets(_, _)
\* lines 581-604: every packet with pts and dts goes to its new stream; on
\* a video stream it is unpickled and re-encoded, else muxed as it is
transcode_packets(packets, st) ==
    IF packets = <<>> \/ st.err # "none" THEN st
    ELSE LET packet == Head(packets)
             valid == packet.pts # NoTs /\ packet.dts # NoTs
             k == st.map[packet.stream]
             codec == st.c.streams[k].codec
             e == encode_frame(pickle_loads(packet.body), k, codec,
                               BufOf(st.enc, k), packet.pts)
         IN  IF ~valid THEN transcode_packets(Tail(packets), st)
             ELSE IF packet.stream \notin DOMAIN st.map
             THEN [st EXCEPT !.err = "KeyError"]
             ELSE IF ~IsVideo(codec)
             THEN transcode_packets(Tail(packets),
                    [st EXCEPT !.c = mux(@, [packet EXCEPT !.stream = k])])
             ELSE IF ~IsPickle(packet.body)
             THEN [st EXCEPT !.err = "UnpicklingError"]
             ELSE IF e.err # "none" THEN [st EXCEPT !.err = e.err]
             ELSE transcode_packets(Tail(packets),
                    [st EXCEPT !.c = mux_all(@, e.packets), !.enc = Put(@, k, e.buf)])

\* lines 606-618 once the packets are through (st), or the state the
\* exception leaves: the new container as far as it got, the original at
\* the temp path, original_container and new_container still open
transcode_finish(moved, st, ending_timestamp) ==
    IF st.err # "none"
    THEN Raise([moved EXCEPT !.file = OnDisk(st.c), !.handles = @ + 2], st.err)
    ELSE [Commit(moved, drain_streams(st.c, st.enc, ending_timestamp, 1))
             EXCEPT !.temp = NoFile, !.cont = "open", !.enc = NoBufs,
                    !.f2s = Detach(@)]

NewContainer == [c |-> EmptyContainer, map |-> EmptyMap, enc |-> NoBufs, i |-> 1,
                 err |-> "none"]

\* _transcode_pickled_images(ending_timestamp)
transcode_pickled_images(s, ending_timestamp) ==
    IF ~s.file.exists THEN Raise(s, "FileNotFoundError")
    ELSE IF open_read_err(s.file) # "none"
    THEN Raise(rename_to_temp(s), open_read_err(s.file))
    ELSE transcode_finish(rename_to_temp(s),
             transcode_packets(demux(s.file),
                               transcode_streams(s, s.file, NewContainer)),
             ending_timestamp)

---------------------------------------------------------------------------
(* close. *)

\* lines 134-148: drain the encoders of the live container, then
\* self.container_file.close()
flush_and_close(s, ts) ==
    IF s.cont = "open"
    THEN [Commit(s, drain_streams(Live(s), s.enc, ts, 1))
             EXCEPT !.enc = NoBufs, !.cont = "closed", !.pending = <<>>,
                    !.started = FALSE]
    ELSE s

\* lines 152-155, unless the transcoder raised
close_finish(done) ==
    IF ~Ok(done) THEN done
    ELSE [done EXCEPT !.cont = "none", !.is_closed = TRUE, !.f2s = Detach(@),
                      !.pending = <<>>, !.started = FALSE,
                      !.trajectory_data = NoData]

\* close without the is_closed test of its first lines
close_without_closed_test(s, compact, ts) ==
    IF s.cont \notin {"open", "closed"} THEN Raise(s, "AttributeError")
    ELSE close_finish(IF compact
                      THEN transcode_pickled_images(flush_and_close(s, ts), ts)
                      ELSE flush_and_close(s, ts))

\* close(compact); ts is what _get_current_timestamp() returns
close(s, compact, ts) ==
    IF s.is_closed THEN Raise(s, "DoubleClose")
    ELSE IF s.cont \notin {"open", "closed"} THEN Raise(s, "AttributeError")
    ELSE close_finish(IF compact
                      THEN transcode_pickled_images(flush_and_close(s, ts), ts)
                      ELSE flush_and_close(s, ts))

\* lines 134-148 when stream.encode(None) raises fault for every stream:
\* the handler of lines 142-143 catches any Exception, logs it and goes on
\* to the next stream, so nothing is muxed and nothing is raised
flush_failing_and_close(s, ts, fault) ==
    IF s.cont = "open"
    THEN [s EXCEPT !.enc = NoBufs, !.cont = "closed", !.pending = <<>>,
                   !.started = FALSE]
    ELSE s

\* close(compact) when flushing the stream encoders raises fault
close_with_flush_error(s, compact, ts, fault) ==
    IF s.is_closed THEN Raise(s, "DoubleClose")
    ELSE IF s.cont \notin {"open", "closed"} THEN Raise(s, "AttributeError")
    ELSE close_finish(IF compact
                      THEN transcode_pickled_images(
                               flush_failing_and_close(s, ts, fault), ts)
                      ELSE flush_failing_and_close(s, ts, fault))

---------------------------------------------------------------------------
(* _on_new_stream, add, add_by_dict, init_feature_streams. *)

\* the stream object of the stream added last to container c
NewHandle(c) == [idx |-> Len(c.streams), codec |-> c.streams[Len(c.streams)].codec,
                 cur |-> TRUE]

RECURSIVE remux_streams(_, _, _)
\* lines 696-711: a counterpart in the new container for every original
\* stream that has a FEATURE_NAME: same codec, the recorded feature type,
\* the original metadata.  st = [c, map, enc, i, err]
remux_streams(s, original, st) ==
    IF st.i > Len(original.streams) \/ st.err # "none" THEN st
    ELSE LET stream == original.streams[st.i]
             stream_feature == stream.meta["FEATURE_NAME"]
             r == add_stream_to_container(st.c, stream_feature, stream.codec,
                                          s.f2t[stream_feature])
             k == Len(r.c.streams)
         IN  IF ~HasMeta(stream, "FEATURE_NAME")
             THEN remux_streams(s, original, [st EXCEPT !.i = @ + 1])
             ELSE IF stream_feature \notin DOMAIN s.f2t
             THEN [st EXCEPT !.err = "KeyError"]
             ELSE IF r.err # "none" THEN [st EXCEPT !.err = r.err]
             ELSE remux_streams(s, original,
                    [st EXCEPT !.c = copy_metadata(r.c, k, stream), !.i = @ + 1,
                               !.map = Put(@, st.i, k)])

\* lines 714-717: the stream of the new feature
remux_add_stream(st, new_feature, new_encoding, new_feature_type) ==
    LET r == add_stream_to_container(st.c, new_feature, new_encoding,
                                     new_feature_type)
        k == Len(r.c.streams)
    IN  IF st.err # "none" THEN st
        ELSE IF r.err # "none" THEN [st EXCEPT !.err = r.err]
        ELSE [st EXCEPT !.c = r.c, !.map = Put(@, k, k)]

\* remux_packets that muxes nothing
remux_packets_dropped(packets, st) == st

RECURSIVE remux_packets(_, _)
\* lines 723-734: every packet with pts and dts is muxed as it is into the
\* stream the map gives for its stream index
remux_packets(packets, st) ==
    IF packets = <<>> \/ st.err # "none" THEN st
    ELSE LET packet == Head(packets)
             valid == packet.pts # NoTs /\ packet.dts # NoTs
         IN  IF ~valid THEN remux_packets(Tail(packets), st)
             ELSE IF packet.stream \notin DOMAIN st.map
             THEN [st EXCEPT !.err = "KeyError"]
             ELSE remux_packets(Tail(packets),
                    [st EXCEPT !.c = mux(@, [packet EXCEPT !.stream = st.map[packet.stream]])])

\* lines 736-742 once the packets are through (st), or the state the
\* exception leaves
remux_finish(moved, st, new_feature) ==
    IF st.err # "none"
    THEN Raise([moved EXCEPT !.file = OnDisk(st.c), !.handles = @ + 2], st.err)
    ELSE [Commit(moved, st.c)
             EXCEPT !.temp = NoFile, !.cont = "open", !.enc = NoBufs,
                    !.f2s = Put(Detach(@), new_feature, NewHandle(st.c)),
                    !.is_closed = FALSE]

\* lines 683-742 on the state closed that self.close(compact=False) left
remux_closed(closed, new_feature, new_encoding, new_feature_type) ==
    IF ~Ok(closed) THEN closed
    ELSE IF ~closed.file.exists THEN Raise(closed, "FileNotFoundError")
    ELSE IF open_read_err(closed.file) # "none"
    THEN Raise(rename_to_temp(closed), open_read_err(closed.file))
    ELSE remux_finish(rename_to_temp(closed),
             remux_packets(demux(closed.file),
                 remux_add_stream(remux_streams(closed, closed.file, NewContainer),
                                  new_feature, new_encoding, new_feature_type)),
             new_feature)

\* the first feature: a stream in the current container, lines 672-676
first_stream(s, new_feature, new_encoding, new_feature_type) ==
    LET r == add_stream_to_container(Live(s), new_feature, new_encoding,
                                     new_feature_type)
    IN  IF s.cont # "open"
        THEN Raise(s, IF s.cont = "closed" THEN "ValueError" ELSE "AttributeError")
        ELSE IF r.err # "none" THEN Raise(s, r.err)
        ELSE [Commit(s, r.c) EXCEPT !.f2s = Put(@, new_feature, NewHandle(r.c))]

\* _on_new_stream without the test of its first two lines for a known feature
on_new_stream_unchecked(s, new_feature, new_encoding, new_feature_type, ts) ==
    IF DOMAIN s.f2s = {}
    THEN first_stream(s, new_feature, new_encoding, new_feature_type)
    ELSE remux_closed(close(s, FALSE, ts), new_feature, new_encoding,
                      new_feature_type)

\* _on_new_stream(new_feature, new_encoding, new_feature_type); ts is what
\* _get_current_timestamp() returns in the close it calls
on_new_stream(s, new_feature, new_encoding, new_feature_type, ts) ==
    IF new_feature \in DOMAIN s.f2s THEN s
    ELSE IF DOMAIN s.f2s = {}
    THEN first_stream(s, new_feature, new_encoding, new_feature_type)
    ELSE remux_closed(close(s, FALSE, ts), new_feature, new_encoding,
                      new_feature_type)

\* lines 284-295 of add, on the state s1 with the feature's stream in place
add_packet(s1, feature, data, ts) ==
    LET stream == s1.f2s[feature]
        e == encode_frame(data, stream.idx, stream.codec,
                          BufOf(s1.enc, stream.idx), ts)
        encoded == IF IsVideo(stream.codec)
                   THEN [s1 EXCEPT !.enc = Put(@, stream.idx, e.buf)]
                   ELSE s1
    IN  IF ~Ok(s1) THEN s1
        \* the encoder of a stream whose container was closed is drained
        ELSE IF IsVideo(stream.codec) /\ ~stream.cur THEN Raise(s1, "EOFError")
        ELSE IF e.err # "none" THEN Raise(s1, e.err)
        ELSE IF e.packets = <<>> THEN encoded
        ELSE IF s1.cont = "none" THEN Raise(encoded, "AttributeError")
        ELSE IF s1.cont # "open" THEN Raise(encoded, "ValueError")
        ELSE Commit(encoded, mux_all(Live(encoded), e.packets))

\* lines 271-273 of add
record_type(s, feature, data) == [s EXCEPT !.f2t = Put(@, feature, from_data(data))]

\* add without the test of its first lines for a dict value
add_without_dict_test(s, feature, data, timestamp, clock) ==
    add_packet(IF feature \in DOMAIN s.f2s
               THEN record_type(s, feature, data.val)
               ELSE on_new_stream(record_type(s, feature, data.val), feature,
                                  "rawvideo", from_data(data.val), clock),
               feature, data.val,
               IF timestamp = NoTs THEN clock ELSE timestamp)

\* add(feature, data, timestamp); data is a node: a dict or a leaf value.
\* clock is what _get_current_timestamp() returns during the call
add(s, feature, data, timestamp, clock) ==
    IF data.isdict THEN Raise(s, "InvalidValue")
    ELSE add_packet(IF feature \in DOMAIN s.f2s
                    THEN record_type(s, feature, data.val)
                    ELSE on_new_stream(record_type(s, feature, data.val), feature,
                                       "rawvideo", from_data(data.val), clock),
                    feature, data.val,
                    IF timestamp = NoTs THEN clock ELSE timestamp)

RECURSIVE add_items(_, _, _, _)
\* lines 324-325: add every (feature, value) item with the same timestamp
add_items(s, items, timestamp, clock) ==
    IF items = <<>> \/ ~Ok(s) THEN s
    ELSE add_items(add(s, Head(items)[1], Leaf(Head(items)[2]), timestamp, clock),
                   Tail(items), timestamp, clock)

\* add_by_dict(data, timestamp)
add_by_dict(s, data, timestamp, clock) ==
    IF ~data.isdict THEN Raise(s, "InvalidValue")
    ELSE add_items(s, flatten_dict(data, <<>>),
                   IF timestamp = NoTs THEN clock ELSE timestamp, clock)

\* one round of the loop of init_feature_streams
init_feature_stream(s, feature, feature_type) ==
    LET r == add_stream_to_container(Live(s), feature,
                 get_encoding_of_feature(s.lossy, feature_type), feature_type)
    IN  IF s.cont # "open" THEN Raise(s, "AttributeError")
        ELSE IF r.err # "none" THEN Raise(s, r.err)
        ELSE [Commit(s, r.c) EXCEPT !.f2s = Put(@, feature, NewHandle(r.c))]

RECURSIVE init_feature_streams(_, _)
\* init_feature_streams(feature_spec); feature_spec is a sequence of
\* (feature, feature_type) items
init_feature_streams(s, feature_spec) ==
    IF feature_spec = <<>> \/ ~Ok(s) THEN s
    ELSE init_feature_streams(
             init_feature_stream(s, Head(feature_spec)[1], Head(feature_spec)[2]),
             Tail(feature_spec))

---------------------------------------------------------------------------
(* from_list_of_dicts. *)

Min(a, b) == IF a < b THEN a ELSE b

RECURSIVE add_steps(_, _, _)
\* lines 346-347: add_by_dict(step) for every step; a step takes a
\* millisecond, so step number i runs when the clock shows Min(MaxTime, i)
add_steps(s, data, i) ==
    IF data = <<>> \/ ~Ok(s) THEN s
    ELSE add_steps(add_by_dict(s, Head(data), NoTs, Min(MaxTime, i)),
                   Tail(data), i + 1)

\* line 348, unless a step raised
close_after_steps(added, ts) == IF ~Ok(added) THEN added ELSE close(added, TRUE, ts)

\* from_list_of_dicts(data, path, lossy_compression) on the instance s the
\* constructor has just made
from_list_of_dicts(s, data) ==
    close_after_steps(add_steps(s, data, 0), Min(MaxTime, Len(data)))

---------------------------------------------------------------------------
(* from_dict_of_lists. *)

\* step = {k: v[i] for k, v in _flatten_dict_data.items()}
column_step(flat, i) ==
    Dict([j \in 1..Len(flat) |-> <<flat[j][1], Leaf(flat[j][2][i])>>])

RECURSIVE column_steps(_, _, _, _)
\* lines 385-387: add_by_dict(step) for i in range(list_lengths[0]), from
\* step i on (i counts from 1); step number i runs when the clock shows
\* Min(MaxTime, i - 1)
column_steps(s, flat, i, length) ==
    IF i > length \/ ~Ok(s) THEN s
    ELSE column_steps(add_by_dict(s, column_step(flat, i), NoTs, Min(MaxTime, i - 1)),
                      flat, i + 1, length)

\* from_dict_of_lists(data, path, feature_name_separator, lossy_compression)
\* on the instance s the constructor has just made; data is a dict node
\* whose leaves are sequences of values
from_dict_of_lists(s, data) ==
    LET flat == flatten_dict(data, <<>>)
        list_lengths == [j \in 1..Len(flat) |-> Len(flat[j][2])]
    IN  IF Cardinality({list_lengths[j] : j \in 1..Len(flat)}) # 1
        THEN Raise(s, "ShapeMismatch")
        ELSE close_after_steps(column_steps(s, flat, 1, list_lengths[1]),
                               Min(MaxTime, list_lengths[1]))

---------------------------------------------------------------------------
(* _load_from_container.  A dense array is [dtype, shape, elems]: elems    *)
(* holds one element per step, shape and dtype are those of an element.    *)

RECURSIVE Prod(_)
Prod(shape) == IF shape = <<>> THEN 1 ELSE Head(shape) * Prod(Tail(shape))

\* numpy's conversion of element content x to dtype
Cast(dtype, x) == IF dtype = "uint8" THEN CastU8(x) ELSE x

\* _get_length_of_stream(container, stream) for the stream of index i
get_length_of_stream(c, i) ==
    Cardinality({k \in 1..Len(demux(c)) :
                    demux(c)[k].stream = i /\ demux(c)[k].dts # NoTs})

\* np.empty((length,) + shape, dtype): the elements are whatever the memory
\* held, the content g
np_empty(length, ft, g) ==
    [dtype |-> ft.dtype, shape |-> ft.shape, elems |-> [k \in 1..length |-> g]]

RECURSIVE prealloc(_, _, _, _)
\* lines 447-464: st = [f2t, np, d, i, err]
prealloc(c, length, g, st) ==
    IF st.i > Len(c.streams) THEN st
    ELSE LET stream == c.streams[st.i]
             feature_name == stream.meta["FEATURE_NAME"]
             feature_type == from_str(stream.meta["FEATURE_TYPE"])
         IN  IF ~HasMeta(stream, "FEATURE_NAME")
             THEN prealloc(c, length, g, [st EXCEPT !.i = @ + 1])
             ELSE IF ~HasMeta(stream, "FEATURE_TYPE")
             THEN [st EXCEPT !.err = "TypeError"]
             ELSE prealloc(c, length, g,
                    [st EXCEPT !.i = @ + 1,
                               !.f2t = Put(@, feature_name, feature_type),
                               !.np = Put(@, feature_name,
                                          np_empty(length, feature_type, g)),
                               !.d = Put(@, feature_name, 0)])

\* store on an array that grows when the cursor is past its end
store_growing(st, feature_name, data) ==
    LET arr == st.np[feature_name]
        at == st.d[feature_name]
    IN  IF at >= Len(arr.elems)
        THEN [st EXCEPT !.np[feature_name].elems = Append(@, Cast(arr.dtype, data.x)),
                        !.d[feature_name] = at + 1]
        ELSE IF data.shape # arr.shape /\ data.shape # <<>>
        THEN [st EXCEPT !.err = "ValueError"]
        ELSE [st EXCEPT !.np[feature_name].elems[at + 1] = Cast(arr.dtype, data.x),
                        !.d[feature_name] = at + 1]

\* np_cache[feature_name][d_feature_length[feature_name]] = data, then the
\* cursor moves on; data is [shape, x].  st = [np, d, err]
store(st, feature_name, data) ==
    LET arr == st.np[feature_name]
        at == st.d[feature_name]
    IN  IF at >= Len(arr.elems) THEN [st EXCEPT !.err = "IndexError"]
        ELSE IF data.shape # arr.shape /\ data.shape # <<>>
        THEN [st EXCEPT !.err = "ValueError"]
        ELSE [st EXCEPT !.np[feature_name].elems[at + 1] = Cast(arr.dtype, data.x),
                        !.d[feature_name] = at + 1]

\* frame.to_ndarray(format).reshape(shape) of a decoded frame: [ok, data]
frame_to_ndarray(frame, feature_type, noise) ==
    LET channels == IF feature_type.dtype = "float32" THEN 1 ELSE 3
        x == frame.x + noise
    IN  [ok |-> frame.h * frame.w * channels = Prod(feature_type.shape),
         data |-> [shape |-> feature_type.shape,
                   x |-> IF x < 0 THEN 0 ELSE IF x > 255 THEN 255 ELSE x]]

RECURSIVE decode_packets(_, _, _, _)
\* lines 468-502; noise is what the lossy codec changed in a pixel
decode_packets(c, packets, noise, st) ==
    IF packets = <<>> \/ st.err # "none" THEN st
    ELSE LET packet == Head(packets)
             stream == c.streams[packet.stream]
             feature_name == stream.meta["FEATURE_NAME"]
             feature_type == from_str(stream.meta["FEATURE_TYPE"])
             rest == Tail(packets)
         IN  IF ~HasMeta(stream, "FEATURE_NAME")
             THEN decode_packets(c, rest, noise, st)
             ELSE IF stream.codec = "rawvideo"
             THEN IF packet.body.kind = "empty"
                  THEN decode_packets(c, rest, noise, st)
                  ELSE IF ~IsPickle(packet.body)
                  THEN [st EXCEPT !.err = "UnpicklingError"]
                  ELSE LET data == pickle_loads(packet.body)
                       IN  decode_packets(c, rest, noise,
                             store(st, feature_name, [shape |-> data.shape, x |-> data.x]))
             ELSE IF packet.body.kind = "empty"
             THEN decode_packets(c, rest, noise, st)
             ELSE IF packet.body.kind # "frame"
             THEN [st EXCEPT !.err = "InvalidDataError"]
             ELSE LET a == frame_to_ndarray(packet.body.val, feature_type,
                               IF stream.codec = "libaom-av1" THEN noise ELSE 0)
                  IN  IF ~a.ok THEN [st EXCEPT !.err = "ValueError"]
                      ELSE decode_packets(c, rest, noise, store(st, feature_name, a.data))

\* line 506, container.close(), is reached only when nothing raised since
\* line 438.  r = [s, dec]
load_exit(r) ==
    IF r.dec.err # "none" THEN [r EXCEPT !.s.handles = @ + 1] ELSE r

\* the decode loop on what the preallocation (pre) made
load_decode(s, c, pre, noise) ==
    load_exit(
        IF pre.err # "none"
        THEN [s |-> [s EXCEPT !.f2t = pre.f2t],
              dec |-> [np |-> EmptyMap, d |-> EmptyMap, err |-> pre.err]]
        ELSE [s |-> [s EXCEPT !.f2t = pre.f2t],
              dec |-> decode_packets(c, demux(c), noise,
                                     [np |-> pre.np, d |-> pre.d, err |-> "none"])])

\* _load_from_container(): [s, dec: [np, d, err]]; np maps feature names to
\* arrays
load_from_container(s, g, noise) ==
    IF open_read_err(s.file) # "none"
    THEN [s |-> s, dec |-> [np |-> EmptyMap, d |-> EmptyMap,
                            err |-> open_read_err(s.file)]]
    ELSE load_decode(s, s.file,
             prealloc(s.file, get_length_of_stream(s.file, 1), g,
                      [f2t |-> s.f2t, np |-> EmptyMap, d |-> EmptyMap, i |-> 1,
                       err |-> "none"]),
             noise)

---------------------------------------------------------------------------
(* The decoded cache: _write_to_cache, recursively_read_hdf5_group, load.  *)
(* The cache file maps dataset paths to arrays; a loaded result maps keys  *)
(* to nodes, a node being an array or a nested map (an hdf5 group).        *)

\* readable: h5py can open the file and read its datasets
NoCache == [exists |-> FALSE, data |-> EmptyMap, readable |-> TRUE]
NoArr == [dtype |-> "none", shape |-> <<>>, elems |-> <<>>]
ArrNode(arr) == [isgroup |-> FALSE, arr |-> arr, sub |-> EmptyMap]
GroupNode(sub) == [isgroup |-> TRUE, arr |-> NoArr, sub |-> sub]

IsPrefix(p, q) == Len(p) <= Len(q) /\ SubSeq(q, 1, Len(p)) = p

RECURSIVE create_datasets(_, _, _)
\* lines 523-536, over the features left to write: h5py creates the groups
\* a dataset's path runs through, and refuses a path that is taken
create_datasets(np_cache, left, st) ==
    IF left = {} \/ st.err # "none" THEN st
    ELSE LET feature_name == CHOOSE n \in left : TRUE
             taken == \E p \in DOMAIN st.data :
                         IsPrefix(p, feature_name) \/ IsPrefix(feature_name, p)
         IN  IF taken THEN [st EXCEPT !.err = "ValueError"]
             ELSE create_datasets(np_cache, left \ {feature_name},
                    [st EXCEPT !.data = Put(@, feature_name, np_cache[feature_name])])

\* _write_to_cache(np_cache): [cache, err]
write_to_cache(np_cache) ==
    LET st == create_datasets(np_cache, DOMAIN np_cache,
                              [data |-> EmptyMap, err |-> "none"])
    IN  [cache |-> [exists |-> TRUE, data |-> st.data, readable |-> TRUE],
         err |-> st.err]

RECURSIVE recursively_read_hdf5_group(_)
\* the nested map of the datasets at the given paths (robodm/utils.py)
recursively_read_hdf5_group(data) ==
    [k \in {<<p[1]>> : p \in DOMAIN data} |->
        IF k \in DOMAIN data THEN ArrNode(data[k])
        ELSE GroupNode(recursively_read_hdf5_group(
                 [q \in {Tail(p) : p \in {r \in DOMAIN data : <<r[1]>> = k}} |->
                     data[k \o q]]))]

\* the map load returns right after a container decode: flat, keyed by the
\* feature names
FlatResult(np_cache) == [k \in DOMAIN np_cache |-> ArrNode(np_cache[k])]

\* load_save that lets the cache write's exception through
load_save_raising(s, np_cache, w) ==
    [s |-> [s EXCEPT !.cache = w.cache],
     val |-> IF w.err # "none" THEN EmptyMap
             ELSE IF DOMAIN np_cache # {} THEN FlatResult(np_cache)
             ELSE recursively_read_hdf5_group(w.cache.data),
     err |-> w.err, opened |-> TRUE]

\* lines 178-196 of load after a decode that did not raise: np_cache is
\* written to the cache (w) and returned, unless it is empty
load_save(s, np_cache, w) ==
    [s |-> [s EXCEPT !.cache = w.cache],
     val |-> IF w.err # "none" \/ DOMAIN np_cache # {} THEN FlatResult(np_cache)
             ELSE recursively_read_hdf5_group(w.cache.data),
     err |-> "none", opened |-> TRUE]

\* lines 175-184 of load on what _load_from_container returned (r)
load_miss(r) ==
    IF r.dec.err # "none"
    THEN [s |-> r.s, val |-> EmptyMap, err |-> r.dec.err, opened |-> TRUE]
    ELSE load_save(r.s, r.dec.np, write_to_cache(r.dec.np))

\* lines 190-195 of load: the cache file is there and h5py cannot read it;
\* r is what the _load_from_container() of the except branch returned
load_fallback(r) ==
    [s |-> r.s,
     val |-> IF r.dec.err # "none" THEN EmptyMap ELSE FlatResult(r.dec.np),
     err |-> r.dec.err, opened |-> TRUE]

\* load that lets the cache read's exception through
load_without_fallback(s, g, noise) ==
    IF ~s.cache.exists THEN load_miss(load_from_container(s, g, noise))
    ELSE IF ~s.cache.readable
    THEN [s |-> s, val |-> EmptyMap, err |-> "OSError", opened |-> FALSE]
    ELSE [s |-> s, val |-> recursively_read_hdf5_group(s.cache.data),
          err |-> "none", opened |-> FALSE]

\* load(save_to_cache=True, return_type="numpy"):
\* [s, val: the map returned, err, opened: the container file was opened]
load(s, g, noise) ==
    IF ~s.cache.exists THEN load_miss(load_from_container(s, g, noise))
    ELSE IF ~s.cache.readable THEN load_fallback(load_from_container(s, g, noise))
    ELSE [s |-> s, val |-> recursively_read_hdf5_group(s.cache.data),
          err |-> "none", opened |-> FALSE]

\* line 122 on the map data: self.trajectory_data[key]
getitem_lookup(s, data, key, opened, loaded) ==
    IF key \in DOMAIN data
    THEN [s |-> s, val |-> [k \in {key} |-> data[k]], err |-> "none",
          opened |-> opened, loaded |-> loaded]
    ELSE [s |-> s, val |-> EmptyMap, err |-> "KeyError", opened |-> opened,
          loaded |-> loaded]

\* lines 118-122 on what the self.load() of line 120 returned (r)
getitem_loaded(r, key) ==
    IF r.err # "none"
    THEN [s |-> r.s, val |-> EmptyMap, err |-> r.err, opened |-> r.opened,
          loaded |-> TRUE]
    ELSE getitem_lookup([r.s EXCEPT !.trajectory_data =
                                        [loaded |-> TRUE, val |-> r.val]],
                        r.val, key, r.opened, TRUE)

\* __getitem__(key): [s, val: the entry returned, err, opened: the
\* container file was opened, loaded: load() was called]
getitem(s, key, g, noise) ==
    IF ~s.trajectory_data.loaded THEN getitem_loaded(load(s, g, noise), key)
    ELSE getitem_lookup(s, s.trajectory_data.val, key, FALSE, FALSE)

\* line 629 of to_hdf5, os.rename(self.cache_file_name, path), on what the
\* self.load() of line 626 returned (r)
to_hdf5_rename(r, loaded) ==
    IF r.err # "none"
    THEN [s |-> r.s, val |-> EmptyMap, err |-> r.err, opened |-> r.opened,
          loaded |-> loaded]
    ELSE IF ~r.s.cache.exists
    THEN [s |-> r.s, val |-> EmptyMap, err |-> "FileNotFoundError",
          opened |-> r.opened, loaded |-> loaded]
    ELSE [s |-> [r.s EXCEPT !.hdf5 = r.s.cache, !.cache = NoCache],
          val |-> EmptyMap, err |-> "none", opened |-> r.opened,
          loaded |-> loaded]

\* to_hdf5(path): load() is called when self.trajectory_data is None or
\* empty
to_hdf5(s, g, noise) ==
    IF ~s.trajectory_data.loaded \/ DOMAIN s.trajectory_data.val = {}
    THEN to_hdf5_rename(load(s, g, noise), TRUE)
    ELSE to_hdf5_rename([s |-> s, err |-> "none", opened |-> FALSE], FALSE)

---------------------------------------------------------------------------
(* The state machine.                                                      *)
(*   fs    the files: [file, temp, cache, hdf5]                            *)
(*   traj  the Trajectory instance the caller holds; none (NoTraj) after   *)
(*         a constructor raised                                            *)
(*   now   _get_current_timestamp(): milliseconds since traj.start_time,   *)
(*         0 when the instance has no open container to stamp packets for  *)
(*   ret   how the last operation ended: its name, the exception it        *)
(*         raised, the map a load returned, whether it opened the          *)
(*         container file, the handles it left open, whether it called     *)
(*         load()                                                          *)
(*   calls the add and add_by_dict calls made so far                       *)
(*   hist  what the callers have done to the container at path since it    *)
(*         was created: the values handed to add and add_by_dict per       *)
(*         flattened feature name in call order (vals), whether none of    *)
(*         these calls raised (ok), whether a close has returned since     *)
(*         (sealed), whether from_list_of_dicts made it (bulk)             *)

FsFields == {"file", "temp", "cache", "hdf5"}
TrajFields == {"cont", "started", "pending", "enc", "is_closed", "f2s", "f2t",
               "lossy", "mode", "trajectory_data"}

\* the record the operations work on, and its two halves
\* handles counts the container handles the operation under way has
\* opened in a local variable and not closed
State == [k \in FsFields \cup TrajFields \cup {"err", "handles"} |->
             IF k \in FsFields THEN fs[k]
             ELSE IF k \in TrajFields THEN traj[k]
             ELSE IF k = "handles" THEN 0 ELSE "none"]
FsOf(s) == [k \in FsFields |-> s[k]]
TrajOf(s) == [k \in TrajFields |-> s[k]]

\* Trajectory.__init__: the fields of a fresh instance
NewTraj(mode, lossy) ==
    [cont |-> IF mode = "w" THEN "open" ELSE "unset", started |-> FALSE,
     pending |-> <<>>, enc |-> NoBufs,
     is_closed |-> FALSE, f2s |-> EmptyMap, f2t |-> EmptyMap, lossy |-> lossy,
     mode |-> mode, trajectory_data |-> NoData]

\* the caller holds no instance; lossy is the lossy_compression the caller
\* passes to the constructors
NoTraj(lossy) == [NewTraj("none", lossy) EXCEPT !.cont = "none"]

Result(op, err) == [op |-> op, err |-> err, val |-> EmptyMap, opened |-> FALSE,
                    handles |-> 0, loaded |-> FALSE]
\* how a method of the instance ended in state s
Returned(op, s) == [Result(op, s.err) EXCEPT !.handles = s.handles]
\* how a bulk constructor ended in state s: when it raises, its local traj
\* goes out of scope with the writer handle as it is
Constructed(op, s) ==
    [Result(op, s.err) EXCEPT
        !.handles = s.handles + IF ~Ok(s) /\ s.cont = "open" THEN 1 ELSE 0]

\* the timestamp argument of add and add_by_dict: None or a caller's value
TsArgs == {NoTs, 0}
\* the data argument of add: a value, or (wrongly) a dict
AddData == {Leaf(v) : v \in {V2, VImg}} \cup {Dict(<<>>)}
\* the data argument of add_by_dict: a step map, or (wrongly) a value
DictData == StepMaps \cup {Leaf(V1)}
\* the feature_spec argument of init_feature_streams
FeatureSpecs == {<<<<NameA, from_data(VImg)>>>>}
\* the data argument of from_list_of_dicts
StepLists == UNION {[1..n -> StepMaps] : n \in 1..MaxSteps}
\* the content of memory np.empty does not initialise
Garbage == {0, 99}
\* what the lossy codec may change in a pixel
Noise == {0, 1}

NoHist == [ok |-> TRUE, sealed |-> FALSE, bulk |-> FALSE, vals |-> EmptyMap]

RECURSIVE Written(_, _)
\* vals with the (feature, value) items appended in order
Written(vals, items) ==
    IF items = <<>> THEN vals
    ELSE LET k == Head(items)[1]
         IN  Written(Put(vals, k, Append(IF k \in DOMAIN vals THEN vals[k] ELSE <<>>,
                                         Head(items)[2])),
                     Tail(items))

RECURSIVE StepItems(_)
\* the flattened items of all the steps of a list, in order
StepItems(data) ==
    IF data = <<>> THEN <<>>
    ELSE flatten_dict(Head(data), <<>>) \o StepItems(Tail(data))

\* hist after an add or add_by_dict call that ended in state s: the first
\* packet of a new container starts a new file at path
AfterWrite(s, items) ==
    LET h == IF s.started /\ ~traj.started THEN NoHist ELSE hist
    IN  IF ~s.file.exists THEN NoHist
        ELSE IF Ok(s) THEN [h EXCEPT !.vals = Written(@, items)]
        ELSE [h EXCEPT !.ok = FALSE, !.vals = EmptyMap]

\* a writer holds the path: an output container that has put its file there
Busy == traj.cont = "open" /\ traj.started

Init ==
    /\ hist = NoHist
    /\ fs = [file |-> NoFile, temp |-> NoFile, cache |-> NoCache, hdf5 |-> NoCache]
    /\ traj \in {NewTraj("w", lossy) : lossy \in BOOLEAN}
    /\ now = 0
    /\ ret = Result("init", "none")
    /\ calls = 0

\* the wall clock advances while a writer is at work
Tick ==
    /\ traj.cont = "open"
    /\ now < MaxTime
    /\ now' = now + 1
    /\ UNCHANGED <<fs, traj, ret, calls, hist>>

Writing == traj.mode = "w" /\ calls < MaxCalls

\* the clock reading after an operation that ended in state s
Clock(s) == IF s.cont = "open" THEN now ELSE 0

Add ==
    /\ Writing
    /\ \E feature \in Names, data \in AddData, timestamp \in TsArgs :
         LET s == add(State, feature, data, timestamp, now)
         IN  /\ fs' = FsOf(s)
             /\ traj' = TrajOf(s)
             /\ ret' = Returned("add", s)
             /\ hist' = AfterWrite(s, IF data.isdict THEN <<>>
                                      ELSE <<<<feature, data.val>>>>)
             /\ now' = Clock(s)
    /\ calls' = calls + 1

AddByDict ==
    /\ Writing
    /\ \E data \in DictData, timestamp \in TsArgs :
         LET s == add_by_dict(State, data, timestamp, now)
         IN  /\ fs' = FsOf(s)
             /\ traj' = TrajOf(s)
             /\ ret' = Returned("add_by_dict", s)
             /\ hist' = AfterWrite(s, IF data.isdict THEN flatten_dict(data, <<>>)
                                      ELSE <<>>)
             /\ now' = Clock(s)
    /\ calls' = calls + 1

\* init_feature_streams, called before the first packet is muxed
InitFeatureStreams ==
    /\ Writing
    /\ ~traj.started
    /\ Len(traj.pending) < 2
    /\ \E feature_spec \in FeatureSpecs :
         LET s == init_feature_streams(State, feature_spec)
         IN  /\ fs' = FsOf(s)
             /\ traj' = TrajOf(s)
             /\ ret' = Returned("init_feature_streams", s)
    /\ UNCHANGED <<now, calls, hist>>

Close ==
    /\ traj.mode = "w"
    /\ \E compact \in BOOLEAN :
         LET s == close(State, compact, now)
         IN  /\ fs' = FsOf(s)
             /\ traj' = TrajOf(s)
             /\ ret' = Returned("close", s)
             /\ hist' = IF s.file.exists THEN [hist EXCEPT !.sealed = @ \/ Ok(s)]
                        ELSE NoHist
             /\ now' = Clock(s)
    /\ UNCHANGED calls

\* load() on an instance that is not in the middle of writing its file
Load ==
    /\ traj.mode \in {"r", "w"}
    /\ ~Busy
    /\ \E g \in Garbage, noise \in IF traj.lossy THEN Noise ELSE {0} :
         LET r == load(State, g, noise)
         IN  /\ fs' = FsOf(r.s)
             /\ traj' = TrajOf(r.s)
             /\ ret' = [op |-> "load", err |-> r.err, val |-> r.val,
                        opened |-> r.opened, handles |-> r.s.handles,
                        loaded |-> TRUE]
    /\ UNCHANGED <<now, calls, hist>>

\* Trajectory(path, mode, lossy_compression) while no writer holds the
\* path; the caller passes the same lossy_compression throughout a run
Construct ==
    /\ ~Busy
    /\ \E mode \in {"w", "r", "x"} :
         IF (mode = "w" /\ calls < MaxCalls) \/ (mode = "r" /\ fs.file.exists)
         THEN /\ traj' = NewTraj(mode, traj.lossy)
              /\ now' = 0
              /\ ret' = Result("init", "none")
              /\ UNCHANGED <<fs, calls, hist>>
         ELSE /\ mode # "w"
              /\ traj' = NoTraj(traj.lossy)
              /\ now' = 0
              /\ ret' = Result("init", IF mode = "r" THEN "FileNotFoundError"
                                        ELSE "ValueError")
              /\ UNCHANGED <<fs, calls, hist>>

\* Trajectory.from_list_of_dicts(data, path, lossy_compression) while no
\* writer holds the path; the caller gets the new instance unless it raises
FromListOfDicts ==
    /\ ~Busy
    /\ \E data \in StepLists :
         LET fresh == [k \in DOMAIN State |->
                          IF k \in FsFields \cup {"err", "handles"} THEN State[k]
                          ELSE NewTraj("w", traj.lossy)[k]]
             s == from_list_of_dicts(fresh, data)
         IN  /\ calls + Len(data) <= MaxCalls
             /\ fs' = FsOf(s)
             /\ traj' = IF Ok(s) THEN TrajOf(s) ELSE NoTraj(traj.lossy)
             /\ now' = 0
             /\ ret' = Constructed("from_list_of_dicts", s)
             /\ calls' = calls + Len(data)
             /\ hist' = IF ~s.file.exists THEN NoHist
                        ELSE IF Ok(s)
                        THEN [ok |-> TRUE, sealed |-> TRUE, bulk |-> TRUE,
                              vals |-> Written(EmptyMap, StepItems(data))]
                        ELSE IF s.file = fs.file THEN hist
                        ELSE [NoHist EXCEPT !.ok = FALSE, !.bulk = TRUE]

RECURSIVE ColumnItems(_, _, _)
\* the (feature, value) items of the steps from_dict_of_lists makes of the
\* flattened columns flat, in the order it adds them, from step i on
ColumnItems(flat, i, length) ==
    IF i > length THEN <<>>
    ELSE [j \in 1..Len(flat) |-> <<flat[j][1], flat[j][2][i]>>]
             \o ColumnItems(flat, i + 1, length)

\* the steps from_dict_of_lists makes of data: the length of the first
\* column
StepsOf(data) ==
    LET flat == flatten_dict(data, <<>>)
    IN  IF flat = <<>> THEN 0 ELSE Len(flat[1][2])

\* Trajectory.from_dict_of_lists(data, path) while no writer holds the
\* path; the caller gets the new instance unless it raises
FromDictOfLists ==
    /\ ~Busy
    /\ \E data \in ColumnMaps :
         LET fresh == [k \in DOMAIN State |->
                          IF k \in FsFields \cup {"err", "handles"} THEN State[k]
                          ELSE NewTraj("w", traj.lossy)[k]]
             s == from_dict_of_lists(fresh, data)
             made == IF s.err = "ShapeMismatch" THEN 0 ELSE StepsOf(data)
         IN  /\ calls + made <= MaxCalls
             /\ fs' = FsOf(s)
             /\ traj' = IF Ok(s) THEN TrajOf(s) ELSE NoTraj(traj.lossy)
             /\ now' = 0
             /\ ret' = Constructed("from_dict_of_lists", s)
             /\ calls' = calls + made
             /\ hist' = IF ~s.file.exists THEN NoHist
                        ELSE IF Ok(s)
                        THEN [ok |-> TRUE, sealed |-> TRUE, bulk |-> TRUE,
                              vals |-> Written(EmptyMap,
                                  ColumnItems(flatten_dict(data, <<>>), 1, made))]
                        ELSE IF s.file = fs.file THEN hist
                        ELSE [NoHist EXCEPT !.ok = FALSE, !.bulk = TRUE]

\* the container file is deleted from outside
DeleteContainer ==
    /\ ~Busy
    /\ fs.file.exists
    /\ fs' = [fs EXCEPT !.file = NoFile]
    /\ ret' = Result("delete", "none")
    /\ hist' = NoHist
    /\ UNCHANGED <<traj, now, calls>>

Next ==
    \/ Tick
    \/ Add
    \/ AddByDict
    \/ InitFeatureStreams
    \/ Close
    \/ Load
    \/ Construct
    \/ FromListOfDicts
    \/ DeleteContainer

Spec == Init /\ [][Next]_vars

\* the Codec Selector on its own: the feature types it is asked about
MaxRank == 3
Dims == {3, 99, 100, 101}
Dtypes == {"uint8", "float32", "float64"}
Shapes == UNION {[1..n -> Dims] : n \in 0..MaxRank}
FeatureTypes == [dtype : Dtypes, shape : Shapes]

\* self._get_encoding_of_feature(None, feature_type)
GetEncodingOfFeature ==
    /\ \E ft \in FeatureTypes :
         ret' = [op |-> "get_encoding_of_feature", err |-> "none", opened |-> FALSE,
                 handles |-> 0, loaded |-> FALSE,
                 val |-> [feature_type |-> ft,
                          encoding |-> get_encoding_of_feature(traj.lossy, ft)]]
    /\ UNCHANGED <<fs, traj, now, calls, hist>>

SpecCodec == Init /\ [][GetEncodingOfFeature]_vars

\* feature names of which one is a path prefix of the other: h5py cannot
\* hold the dataset p and a dataset p/x in one file
NameP == <<"p">>
ClashingNames == {NameP, NamePX}

\* the add calls of a writer of clashing features: add(p, 1.0),
\* add(p/x, 1.0), and add(a, 2.0)
ClashingAdds == {<<n, V1>> : n \in ClashingNames} \cup {<<NameA, V2>>}

AddClashing ==
    /\ Writing
    /\ \E item \in ClashingAdds :
         LET s == add(State, item[1], Leaf(item[2]), NoTs, now)
         IN  /\ fs' = FsOf(s)
             /\ traj' = TrajOf(s)
             /\ ret' = Returned("add", s)
             /\ hist' = AfterWrite(s, <<item>>)
             /\ now' = Clock(s)
    /\ calls' = calls + 1

\* Trajectory(path, mode="r") on an existing file while no writer holds
\* the path
OpenReader ==
    /\ ~Busy
    /\ fs.file.exists
    /\ traj' = NewTraj("r", traj.lossy)
    /\ now' = 0
    /\ ret' = Result("init", "none")
    /\ UNCHANGED <<fs, calls, hist>>

\* the keys a caller indexes the trajectory by
Keys == Names \cup {NameP}

\* traj[key] on an instance that is not in the middle of writing its file
GetItem ==
    /\ traj.mode \in {"r", "w"}
    /\ ~Busy
    /\ \E key \in Keys, g \in Garbage, noise \in IF traj.lossy THEN Noise ELSE {0} :
         LET r == getitem(State, key, g, noise)
         IN  /\ fs' = FsOf(r.s)
             /\ traj' = TrajOf(r.s)
             /\ ret' = [op |-> "getitem", err |-> r.err, val |-> r.val,
                        opened |-> r.opened, handles |-> r.s.handles,
                        loaded |-> r.loaded]
    /\ UNCHANGED <<now, calls, hist>>

\* to_hdf5(path) on an instance that is not in the middle of writing its
\* file
ToHdf5 ==
    /\ traj.mode \in {"r", "w"}
    /\ ~Busy
    /\ \E g \in Garbage, noise \in IF traj.lossy THEN Noise ELSE {0} :
         LET r == to_hdf5(State, g, noise)
         IN  /\ fs' = FsOf(r.s)
             /\ traj' = TrajOf(r.s)
             /\ ret' = [op |-> "to_hdf5", err |-> r.err, val |-> r.val,
                        opened |-> r.opened, handles |-> r.s.handles,
                        loaded |-> r.loaded]
    /\ UNCHANGED <<now, calls, hist>>

\* the cache file is damaged from outside: h5py can no longer read it
CorruptCache ==
    /\ fs.cache.exists /\ fs.cache.readable
    /\ fs' = [fs EXCEPT !.cache.readable = FALSE]
    /\ ret' = Result("corrupt", "none")
    /\ UNCHANGED <<traj, now, calls, hist>>

\* what stream.encode(None) may raise
FlushErrors == {"EOFError", "ValueError"}

\* close(compact) on an open writer with streams whose encoders raise
\* when they are flushed
CloseFlushFailing ==
    /\ traj.mode = "w"
    /\ traj.cont = "open"
    /\ Live(State).streams # <<>>
    /\ \E compact \in BOOLEAN, fault \in FlushErrors :
         LET s == close_with_flush_error(State, compact, now, fault)
         IN  /\ fs' = FsOf(s)
             /\ traj' = TrajOf(s)
             /\ ret' = Returned("close", s)
             /\ hist' = IF s.file.exists THEN [hist EXCEPT !.sealed = @ \/ Ok(s)]
                        ELSE NoHist
             /\ now' = Clock(s)
    /\ UNCHANGED calls

\* a writer, of clashing features too, and the failures of the encoders
\* and of the cache
NextFaults ==
    \/ AddClashing
    \/ Close
    \/ CloseFlushFailing
    \/ OpenReader
    \/ GetItem
    \/ ToHdf5
    \/ Load
    \/ CorruptCache

SpecFaults == Init /\ [][NextFaults]_vars

NameB == <<"b">>

\* a fresh writer on the path self.path + ".temp", which is a file path as
\* any other: its container file is the file the model calls temp; its
\* own temp file and cache file are files of their own
Other ==
    [k \in FsFields \cup TrajFields \cup {"err", "handles"} |->
        IF k = "file" THEN fs.temp
        ELSE IF k = "temp" THEN NoFile
        ELSE IF k \in FsFields THEN NoCache
        ELSE IF k \in TrajFields THEN NewTraj("w", traj.lossy)[k]
        ELSE IF k = "handles" THEN 0 ELSE "none"]

\* another instance records a trajectory at self.path + ".temp":
\* Trajectory(path + ".temp", "w"), add("b", value), close()
OtherWrites ==
    /\ \E value \in {V1, V2} :
         LET s == close(add(Other, NameB, Leaf(value), NoTs, now), TRUE, now)
         IN  /\ Ok(s)
             /\ fs' = [fs EXCEPT !.temp = s.file]
    /\ ret' = Result("other", "none")
    /\ UNCHANGED <<traj, now, calls, hist>>

\* a writer, and a second instance on another path
NextPaths ==
    \/ Tick
    \/ AddClashing
    \/ Close
    \/ OtherWrites

SpecPaths == Init /\ [][NextPaths]_vars

\* a second reader of the same path, just constructed: it shares the files
OtherReader ==
    [k \in FsFields \cup TrajFields \cup {"err", "handles"} |->
        IF k \in FsFields THEN fs[k]
        ELSE IF k \in TrajFields THEN NewTraj("r", traj.lossy)[k]
        ELSE IF k = "handles" THEN 0 ELSE "none"]

\* load() of this instance as far as line 519 of _write_to_cache: no cache
\* file was found, the container is decoded, h5py.File(name, "w") has made
\* the cache file, and no dataset is in it.  Whether another h5py.File can
\* open the file meanwhile depends on HDF5's file locking: with the lock it
\* raises, without the lock it reads what is there.  ret.op tells that the
\* call is at this point
LoadBegin ==
    /\ traj.mode = "r"
    /\ ret.op # "load_begin"
    /\ ~fs.cache.exists
    /\ \E g \in Garbage, noise \in IF traj.lossy THEN Noise ELSE {0},
          readable \in BOOLEAN :
         LET r == load_from_container(State, g, noise)
         IN  /\ r.dec.err = "none"
             /\ fs' = [fs EXCEPT !.cache = [exists |-> TRUE, data |-> EmptyMap,
                                            readable |-> readable]]
             /\ traj' = TrajOf(r.s)
             /\ ret' = [Result("load_begin", "none") EXCEPT !.opened = TRUE]
    /\ UNCHANGED <<now, calls, hist>>

\* the rest of that load(): lines 523-537 write the datasets of np_cache
\* and close the file, and load returns np_cache
LoadEnd ==
    /\ ret.op = "load_begin"
    /\ \E g \in Garbage, noise \in IF traj.lossy THEN Noise ELSE {0} :
         LET d == load_from_container(State, g, noise)
             r == load_save(d.s, d.dec.np, write_to_cache(d.dec.np))
         IN  /\ d.dec.err = "none"
             /\ fs' = FsOf(r.s)
             /\ traj' = TrajOf(r.s)
             /\ ret' = [op |-> "load", err |-> r.err, val |-> r.val,
                        opened |-> r.opened, handles |-> r.s.handles,
                        loaded |-> TRUE]
    /\ UNCHANGED <<now, calls, hist>>

\* Trajectory(path, "r").load() of a second reader, from its first line to
\* its return, wherever the first reader is; ret keeps the first reader's
\* position and takes what this load returned
OtherLoad ==
    /\ fs.file.exists
    /\ \E g \in Garbage, noise \in IF traj.lossy THEN Noise ELSE {0} :
         LET r == load(OtherReader, g, noise)
         IN  /\ fs' = FsOf(r.s)
             /\ ret' = [ret EXCEPT !.err = r.err, !.val = r.val,
                                   !.opened = r.opened, !.loaded = TRUE]
    /\ UNCHANGED <<traj, now, calls, hist>>

\* a file written and closed, and two readers of it
NextReaders ==
    \/ AddClashing
    \/ Close
    \/ OpenReader
    \/ LoadBegin
    \/ LoadEnd
    \/ OtherLoad

SpecReaders == Init /\ [][NextReaders]_vars

\* the bulk constructor from_dict_of_lists and what reads its files back
NextColumns ==
    \/ FromDictOfLists
    \/ Load
    \/ Close
    \/ DeleteContainer

SpecColumns == Init /\ [][NextColumns]_vars

---------------------------------------------------------------------------
(* What a load returned, compared with what was written. *)

\* the array a loaded map holds under the flat key k
LoadedArr(val, k) == IF k \in DOMAIN val /\ ~val[k].isgroup THEN val[k].arr ELSE NoArr
\* the contents of a sequence of written values
Contents(values) == [i \in 1..Len(values) |-> values[i].x]
\* the values are stored as rawvideo whatever the compression setting
AllRaw(values) ==
    \A i \in 1..Len(values) :
        get_encoding_of_feature(TRUE, from_data(values[i])) = "rawvideo"
\* the load that just returned decoded the container
DecodedLoad == ret.op = "load" /\ ret.opened
\* every feature was given values of one type only
Uniform(vals) ==
    \A k \in DOMAIN vals :
        \A i \in 1..Len(vals[k]) : from_data(vals[k][i]) = from_data(vals[k][1])

\* C1: after from_list_of_dicts has written a list of steps, a load that
\* decodes the resulting file returns, for every flattened feature key, one
\* array element per value written for that key, in the order written, and
\* for rawvideo features the elements equal the written values.
C1_LoadReturnsWrittenSteps ==
    (DecodedLoad /\ hist.bulk /\ hist.ok /\ hist.sealed /\ Uniform(hist.vals)) =>
        /\ ret.err = "none"
        /\ \A k \in DOMAIN hist.vals :
              /\ k \in DOMAIN ret.val
              /\ Len(LoadedArr(ret.val, k).elems) = Len(hist.vals[k])
              /\ AllRaw(hist.vals[k]) =>
                    LoadedArr(ret.val, k).elems = Contents(hist.vals[k])

\* C2: after a feature a was written alone and then a step carried both a
\* and another feature, the loaded array of each feature has exactly as
\* many entries as values were added to that feature; so for every file
\* written with add and add_by_dict calls and closed without an error.
C2_LengthsMatchValuesAdded ==
    (DecodedLoad /\ ret.err = "none" /\ hist.ok /\ hist.sealed /\ ~hist.bulk
        /\ Uniform(hist.vals)) =>
        \A k \in DOMAIN hist.vals :
            Len(LoadedArr(ret.val, k).elems) = Len(hist.vals[k])

\* C3: two consecutive load calls on the same trajectory return equal
\* maps: when a load has returned a map, a load called next returns the same
\* keys with equal arrays.
C3_ConsecutiveLoadsEqual ==
    [][(Load /\ ret.op = "load" /\ ret.err = "none") =>
          (ret'.err = "none" /\ ret'.val = ret.val)]_vars

\* C4: once a load has persisted the decoded cache, a later load is served
\* from the cache without opening the container file, also when the
\* container file is gone, and returns what the load that persisted the
\* cache returned: the flat map of the arrays it wrote.
C4_LaterLoadsServedFromCache ==
    [][(Load /\ fs.cache.exists) =>
          /\ ~ret'.opened
          /\ ret'.err = "none"
          /\ ret'.val = FlatResult(fs.cache.data)]_vars

\* the pts of the packets of file c are non-decreasing within every stream
PtsOrdered(c) ==
    \A i, j \in 1..Len(c.pkts) :
        (i < j /\ c.pkts[i].stream = c.pkts[j].stream) =>
            c.pkts[i].pts <= c.pkts[j].pts

\* C5: in the file at the trajectory's path the packets of each stream are
\* muxed in non-decreasing pts order, whatever add and add_by_dict calls
\* (with or without a timestamp argument), remuxes and closes produced it.
C5_PtsNonDecreasing == PtsOrdered(fs.file)

\* the container of trajectory t over the files f: its open output
\* container, else the file at its path
TrajFile(f, t) ==
    IF t.cont = "open" /\ ~t.started
    THEN [exists |-> TRUE, streams |-> t.pending, pkts |-> <<>>]
    ELSE f.file

\* C6: once close has returned, no add, add_by_dict, close or construction
\* of a Trajectory on the same path changes the container file.
C6_ClosedFileImmutable ==
    [][(hist.sealed /\ (Add \/ AddByDict \/ Close \/ Construct)) =>
          fs'.file = fs.file]_vars

\* C7: close on a closed trajectory raises DoubleClose and changes neither
\* the files nor the trajectory; close on a write-mode trajectory that is
\* not closed never raises DoubleClose.
C7_DoubleClose ==
    [][Close =>
          /\ traj.is_closed => (ret'.err = "DoubleClose" /\ fs' = fs /\ traj' = traj)
          /\ ~traj.is_closed => ret'.err # "DoubleClose"]_vars

\* a close was called on a closed trajectory and raised DoubleClose
C7_Witness == ret.op = "close" /\ ret.err = "DoubleClose" /\ traj.is_closed

\* the feature names the streams of file c carry
FeatureNames(c) ==
    {c.streams[i].meta["FEATURE_NAME"] :
        i \in {j \in 1..Len(c.streams) : HasMeta(c.streams[j], "FEATURE_NAME")}}

\* C8: in write mode no add, add_by_dict (with the remux it may run) or
\* close removes a feature's stream from the trajectory file.
C8_StreamsOnlyGrow ==
    [][(traj.mode = "w" /\ (Add \/ AddByDict \/ Close)) =>
          FeatureNames(TrajFile(fs, traj)) \subseteq FeatureNames(TrajFile(fs', traj'))]_vars

\* every stream of file c has both metadata keys and time base 1/1000
WellFormed(c) ==
    \A i \in 1..Len(c.streams) :
        /\ HasMeta(c.streams[i], "FEATURE_NAME")
        /\ HasMeta(c.streams[i], "FEATURE_TYPE")
        /\ c.streams[i].tb = TimeBaseDen

\* C9: every stream of the file the writer produces carries FEATURE_NAME
\* and FEATURE_TYPE metadata and uses time base 1/1000: in the live
\* container, after a remux, after close, and in the file a failed remux
\* or transcode left at the temp path.
C9_StreamsWellFormed ==
    WellFormed(TrajFile(fs, traj)) /\ WellFormed(fs.file) /\ WellFormed(fs.temp)

\* a closed file of two streams, the second added by a remux, re-made by
\* the transcoder of close
C9_Witness ==
    /\ ret.op = "close" /\ ret.err = "none" /\ hist.sealed
    /\ Len(fs.file.streams) = 2
    /\ fs.file.pkts # <<>>

\* no two streams of container c carry the same FEATURE_NAME
NamesUnique(c) ==
    \A i, j \in 1..Len(c.streams) :
        (i # j /\ HasMeta(c.streams[i], "FEATURE_NAME")
               /\ HasMeta(c.streams[j], "FEATURE_NAME")) =>
            c.streams[i].meta["FEATURE_NAME"] # c.streams[j].meta["FEATURE_NAME"]

\* C10: no two streams of the trajectory's container, nor of the file at
\* its path, carry the same FEATURE_NAME.
C10_FeatureNamesUnique == NamesUnique(TrajFile(fs, traj)) /\ NamesUnique(fs.file)

---------------------------------------------------------------------------
(* The streams of a closed file. *)

\* a close, or a bulk constructor ending in one, has just returned
JustClosed ==
    /\ ret.op \in {"close", "from_list_of_dicts", "from_dict_of_lists"}
    /\ ret.err = "none"
    /\ traj.is_closed

\* the declared size of stream st is that of the feature type its
\* FEATURE_TYPE metadata records: width shape[1], height shape[0]
SizeMatchesType(st) ==
    LET ft == from_str(st.meta["FEATURE_TYPE"])
    IN  /\ Len(ft.shape) >= 2
        /\ st.width = ft.shape[2]
        /\ st.height = ft.shape[1]

\* C11: in the file of a closed trajectory every video-encoded stream
\* declares the width and height of the FeatureType in its FEATURE_TYPE
\* metadata, whatever values were added, values of different shapes for
\* one feature included.
C11_DeclaredSizeMatchesType ==
    JustClosed =>
        \A i \in 1..Len(fs.file.streams) :
            IsVideo(fs.file.streams[i].codec) => SizeMatchesType(fs.file.streams[i])

\* the values are stored as ffv1 when lossy compression is off
AllFfv1(values) ==
    \A i \in 1..Len(values) :
        get_encoding_of_feature(FALSE, from_data(values[i])) = "ffv1"

\* C12: with lossy compression off, a load that decodes a file returns,
\* for every feature stored as ffv1, exactly the elements that were
\* written, whatever their dtype: nothing is cut to 8 bits or rescaled.
C12_LosslessImagesExact ==
    (DecodedLoad /\ ~traj.lossy /\ hist.ok /\ hist.sealed /\ Uniform(hist.vals)) =>
        \A k \in DOMAIN hist.vals :
            AllFfv1(hist.vals[k]) =>
                /\ ret.err = "none"
                /\ LoadedArr(ret.val, k).elems = Contents(hist.vals[k])

---------------------------------------------------------------------------
(* The Codec Selector. *)

\* C13: the Codec Selector answers a video codec, av1 when lossy and ffv1
\* otherwise, exactly when the shape has at least two dims and the first
\* two are both at least 100, whatever the dtype, and rawvideo otherwise:
\* rawvideo for (99, 100, 3), a video codec for (100, 100, 3).
C13_CodecSelector ==
    ret.op = "get_encoding_of_feature" =>
        LET shape == ret.val.feature_type.shape
            image == Len(shape) >= 2 /\ shape[1] >= 100 /\ shape[2] >= 100
        IN  /\ ret.val.encoding =
                  IF ~image THEN "rawvideo"
                  ELSE IF traj.lossy THEN "libaom-av1" ELSE "ffv1"
            /\ shape = <<99, 100, 3>> => ret.val.encoding = "rawvideo"
            /\ shape = <<100, 100, 3>> => ret.val.encoding \in {"libaom-av1", "ffv1"}

\* the selector was asked about a (100, 99, 3) float32 feature
C13_Witness ==
    /\ ret.op = "get_encoding_of_feature"
    /\ ret.val.feature_type = [dtype |-> "float32", shape |-> <<100, 99, 3>>]
    /\ ret.val.encoding = "rawvideo"

---------------------------------------------------------------------------
(* The two phases of a write: capture, then close. *)

\* some stream of container c uses a video codec
HasVideo(c) == \E i \in 1..Len(c.streams) : IsVideo(c.streams[i].codec)

\* C14: while a trajectory is being written every stream of its container
\* uses rawvideo, also after a remux; a video codec comes into the file at
\* its path only by a close, alone or at the end of a bulk constructor.
C14_RawvideoWhileWriting ==
    /\ [](traj.cont = "open" => ~HasVideo(TrajFile(fs, traj)))
    /\ [][(HasVideo(fs'.file) /\ ~HasVideo(fs.file)) =>
             ret'.op \in {"close", "from_list_of_dicts", "from_dict_of_lists"}]_vars

---------------------------------------------------------------------------
(* Arguments of the wrong kind. *)

\* C15: in every state, add called with a map value and add_by_dict called
\* with a value that is no map raise InvalidValue and change nothing: no
\* file, no stream, no recorded feature type, no packet, no field of the
\* trajectory.
C15_InvalidValueChangesNothing ==
    /\ \A feature \in Names, timestamp \in TsArgs :
          \A data \in {d \in AddData : d.isdict} :
              add(State, feature, data, timestamp, now) = Raise(State, "InvalidValue")
    /\ \A timestamp \in TsArgs :
          \A data \in {d \in DictData : ~d.isdict} :
              add_by_dict(State, data, timestamp, now) = Raise(State, "InvalidValue")

\* add was called with a map value on a writer that holds streams, and
\* raised
C15_Witness ==
    /\ ret.op = "add" /\ ret.err = "InvalidValue"
    /\ traj.cont = "open" /\ traj.started
    /\ DOMAIN traj.f2s # {}

---------------------------------------------------------------------------
(* One add_by_dict step. *)

\* the last n packets of container c are the items, in order: each in the
\* stream named by the item's key, carrying the item's value, stamped ts
StepMuxed(c, items, ts) ==
    LET n == Len(items)
        m == Len(c.pkts)
    IN  /\ m >= n
        /\ \A j \in 1..n :
              LET packet == c.pkts[m - n + j]
              IN  /\ packet.pts = ts /\ packet.dts = ts
                  /\ packet.stream \in 1..Len(c.streams)
                  /\ c.streams[packet.stream].meta["FEATURE_NAME"] = items[j][1]
                  /\ IsPickle(packet.body)
                  /\ pickle_loads(packet.body) = items[j][2]

\* an add_by_dict call that returns has written every leaf of its map as
\* a packet of the feature named by the leaf's key path, all of them at the
\* one timestamp resolved at the start of the call; on a writer whose
\* streams are all rawvideo
StepWritten ==
    (Writing /\ traj.cont = "open" /\ ~HasVideo(TrajFile(fs, traj))) =>
        \A data \in StepMaps, timestamp \in TsArgs :
            LET s == add_by_dict(State, data, timestamp, now)
            IN  Ok(s) => StepMuxed(Live(s), flatten_dict(data, <<>>),
                                   IF timestamp = NoTs THEN now ELSE timestamp)

\* a load of a file written by add_by_dict steps alone (those of a bulk
\* constructor) returns every feature written under its own flat key
FlatKeysLoaded ==
    (ret.op = "load" /\ ret.err = "none" /\ hist.ok /\ hist.sealed /\ hist.bulk) =>
        \A k \in DOMAIN hist.vals : k \in DOMAIN ret.val /\ ~ret.val[k].isgroup

\* C16: one add_by_dict call writes each leaf of the map, nested or not,
\* as its own feature named by the key path joined with the separator, all
\* packets of the step at one pts; and load returns these features under
\* separate flat keys.
C16_StepWrittenAndLoadedFlat == StepWritten /\ FlatKeysLoaded

---------------------------------------------------------------------------
(* from_dict_of_lists: columns become steps. *)

\* the state a constructor call starts from: the file system as it is and
\* a new writer
FreshWriter ==
    [k \in DOMAIN State |->
        IF k \in FsFields \cup {"err", "handles"} THEN State[k]
        ELSE NewTraj("w", traj.lossy)[k]]

\* the lengths of the flattened leaf sequences of data
LeafLengths(data) ==
    LET flat == flatten_dict(data, <<>>)
    IN  {Len(flat[j][2]) : j \in 1..Len(flat)}

\* the packets of the stream named key in container c, in file order
RECURSIVE PacketsOf(_, _, _)
PacketsOf(c, key, i) ==
    IF i > Len(c.pkts) THEN <<>>
    ELSE (IF c.streams[c.pkts[i].stream].meta["FEATURE_NAME"] = key
          THEN <<c.pkts[i]>> ELSE <<>>) \o PacketsOf(c, key, i + 1)

\* container c holds column as the feature key: one packet per element, in
\* order, a pickled packet carrying the element itself
ColumnStored(c, key, column) ==
    LET packets == PacketsOf(c, key, 1)
    IN  /\ Len(packets) = Len(column)
        /\ \A i \in 1..Len(column) :
              IsPickle(packets[i].body) =>
                  pickle_loads(packets[i].body) = column[i]

\* C17: from_dict_of_lists raises ShapeMismatch exactly when the flattened
\* leaf sequences do not all have the same length; when they all have
\* length L it performs L add_by_dict steps, step i holding element i of
\* every leaf, and then closes the trajectory.
C17_ColumnsBecomeSteps ==
    ~Busy =>
        \A data \in ColumnMaps :
            LET s == from_dict_of_lists(FreshWriter, data)
                flat == flatten_dict(data, <<>>)
            IN  /\ (s.err = "ShapeMismatch") <=> (Cardinality(LeafLengths(data)) > 1)
                /\ Ok(s) =>
                      /\ s.is_closed /\ s.cont = "none"
                      /\ \A j \in 1..Len(flat) :
                            ColumnStored(s.file, flat[j][1], flat[j][2])

\* the values are stored through the lossy codec under setting lossy
AnyAv1(lossy, values) ==
    \E i \in 1..Len(values) :
        get_encoding_of_feature(lossy, from_data(values[i])) = "libaom-av1"

\* C18: from_dict_of_lists followed by load is the identity modulo
\* flattening: load returns exactly the separator-flattened keys of the
\* input map, each mapped to the original sequence of that leaf in order
\* (the elements of a lossily encoded feature excepted).
C18_ColumnsRoundTrip ==
    (ret.op = "load" /\ hist.bulk /\ hist.ok /\ hist.sealed) =>
        /\ ret.err = "none"
        /\ DOMAIN ret.val = DOMAIN hist.vals
        /\ \A k \in DOMAIN hist.vals :
              /\ ~ret.val[k].isgroup
              /\ Len(LoadedArr(ret.val, k).elems) = Len(hist.vals[k])
              /\ ~AnyAv1(traj.lossy, hist.vals[k]) =>
                    LoadedArr(ret.val, k).elems = Contents(hist.vals[k])

---------------------------------------------------------------------------
(* Errors and the closed state. *)

\* the operations called on a trajectory the caller holds
InstanceOps == {"add", "add_by_dict", "init_feature_streams", "close", "load"}

\* C19: every error that surfaces to the caller from a trajectory
\* operation leaves the trajectory closed: the closed flag is set, the
\* container handle is released, and a following close raises DoubleClose.
C19_ErrorsLeaveClosed ==
    (ret.op \in InstanceOps /\ ret.err # "none") =>
        /\ traj.is_closed
        /\ traj.cont = "none"
        /\ close(State, TRUE, now).err = "DoubleClose"

---------------------------------------------------------------------------
(* Container handles. *)

\* C20: every container handle an operation opens is closed by the time
\* the owning scope exits, on normal return and on every error path: no
\* operation ends with a handle of its own left open, and after a close()
\* that returned no handle of the trajectory is open.
C20_HandlesClosedOnExit ==
    /\ ret.handles = 0
    /\ (ret.op = "close" /\ ret.err = "none") => traj.cont # "open"

---------------------------------------------------------------------------
(* The temp file as the recovery point. *)

\* the operation that just ended was called on a writer whose container
\* had started its file, and raised out of a remux or a transcode after
\* the rename-aside, with the two containers of the remux open
RemuxFailed ==
    /\ traj.cont = "open" /\ traj.started
    /\ ret'.op \in {"add", "add_by_dict", "close"}
    /\ ret'.err # "none"
    /\ ret'.handles = 2

---------------------------------------------------------------------------
(* Cache failures are recovered locally. *)

\* load may be called: the conditions of the Load action
CanLoad == traj.mode \in {"r", "w"} /\ ~Busy

\* C22: when persisting the decoded cache fails during load, no error
\* surfaces: load still returns the in-memory result of the full container
\* decode.
C22_CacheWriteFailureRecovered ==
    (CanLoad /\ ~fs.cache.exists) =>
        \A g \in Garbage, noise \in Noise :
            LET r == load_from_container(State, g, noise)
                out == load(State, g, noise)
            IN  (r.dec.err = "none" /\ write_to_cache(r.dec.np).err # "none") =>
                    /\ out.err = "none"
                    /\ out.val = FlatResult(r.dec.np)

\* a load has decoded the container and returned features that the cache
\* file it left does not hold
C22_Witness ==
    /\ ret.op = "load" /\ ret.opened /\ ret.err = "none"
    /\ fs.cache.exists
    /\ DOMAIN ret.val # {}
    /\ DOMAIN fs.cache.data # DOMAIN ret.val

---------------------------------------------------------------------------
(* Errors while flushing the encoders. *)

\* C24: during close only end-of-file errors raised while draining a
\* stream encoder are swallowed; any other error raised while flushing a
\* stream surfaces to the caller.
C24_OnlyEofSwallowed ==
    (traj.mode = "w" /\ traj.cont = "open" /\ Live(State).streams # <<>>) =>
        \A compact \in BOOLEAN, fault \in FlushErrors :
            LET s == close_with_flush_error(State, compact, now, fault)
            IN  IF fault = "EOFError" THEN s.err # fault ELSE s.err = fault

---------------------------------------------------------------------------
(* Lazy decoding in read mode. *)

\* the last operation was a data request that returned
ReadReturned == ret.op \in {"load", "getitem"} /\ ret.err = "none"

\* C25: opening a trajectory in read mode performs no decode; the full
\* container decode runs at the first data request (load or indexing by
\* key), that first successful read creates the decoded cache, and later
\* indexing on the same instance does not decode or load again.
C25_LazyDecodeOnce ==
    /\ [][(Construct /\ traj'.mode = "r") =>
             fs' = fs /\ ~traj'.trajectory_data.loaded /\ ~ret'.opened]_vars
    /\ [][((Load \/ GetItem) /\ traj.mode = "r" /\ ~fs.cache.exists
                /\ ret'.err = "none") =>
             ret'.opened /\ fs'.cache.exists]_vars
    /\ [][(GetItem /\ traj.mode = "r" /\ ReadReturned) =>
             ~ret'.opened /\ ~ret'.loaded]_vars

---------------------------------------------------------------------------
(* to_hdf5. *)

\* C27: to_hdf5(path), called after a data request has returned, moves the
\* decoded cache file to the supplied path: afterwards the file at that
\* path holds the decoded array of every feature of the container, the
\* cache file no longer exists at its cache location, and the next load()
\* runs a full container decode again.
C27_ToHdf5MovesCache ==
    /\ [][(ToHdf5 /\ ReadReturned) =>
             /\ ret'.err = "none"
             /\ fs'.hdf5.exists
             /\ DOMAIN fs'.hdf5.data = FeatureNames(fs.file)
             /\ ~fs'.cache.exists]_vars
    /\ [][(Load /\ ret.op = "to_hdf5" /\ ret.err = "none") => ret'.opened]_vars

---------------------------------------------------------------------------
(* The stream-adding remux. *)

\* container new holds every packet of container old, in order, each with
\* its pts, dts and body on the stream of the same feature name, and for
\* every stream of old a stream of the same codec and metadata at the same
\* place
Remuxed(old, new) ==
    /\ Len(new.streams) >= Len(old.streams)
    /\ \A i \in 1..Len(old.streams) :
          /\ new.streams[i].codec = old.streams[i].codec
          /\ new.streams[i].meta = old.streams[i].meta
    /\ Len(new.pkts) = Len(old.pkts)
    /\ \A j \in 1..Len(old.pkts) :
          /\ new.pkts[j].pts = old.pkts[j].pts
          /\ new.pkts[j].dts = old.pkts[j].dts
          /\ new.pkts[j].body = old.pkts[j].body
          /\ new.pkts[j].stream \in 1..Len(new.streams)
          /\ new.streams[new.pkts[j].stream].meta["FEATURE_NAME"] =
                old.streams[old.pkts[j].stream].meta["FEATURE_NAME"]

\* C28: the stream-adding remux preserves data: after an _on_new_stream
\* that returned, every packet of the old container is present in the new
\* container exactly once, on the stream with the same feature name, codec
\* and metadata, with unchanged pts and body and in the same order, and
\* the new container has exactly one more stream than the old one.
C28_RemuxPreservesData ==
    (traj.mode = "w" /\ traj.cont = "open" /\ DOMAIN traj.f2s # {}) =>
        \A new_feature \in (Names \cup {NameP}) \ DOMAIN traj.f2s :
            LET s == on_new_stream(State, new_feature, "rawvideo",
                                   from_data(V1), now)
                old == flush_and_close(State, now).file
            IN  Ok(s) =>
                    /\ Len(Live(s).streams) = Len(old.streams) + 1
                    /\ Remuxed(old, Live(s))

\* an add has remuxed a file with packets into a container of two streams
C28_Witness ==
    /\ ret.op \in {"add", "add_by_dict"} /\ ret.err = "none"
    /\ traj.cont = "open" /\ traj.started
    /\ Len(fs.file.streams) = 2
    /\ \E j \in 1..Len(fs.file.pkts) : fs.file.pkts[j].stream = 1
    /\ \E j \in 1..Len(fs.file.pkts) : fs.file.pkts[j].stream = 2

---------------------------------------------------------------------------
(* When add remuxes. *)

\* the stream objects of f2s that belong to a container closed since
Stale(f2s) == {n \in DOMAIN f2s : ~f2s[n].cur}

\* C29: add remuxes exactly when the feature is unknown and a stream
\* exists.  For every feature an open writer may be given: a known feature
\* leaves the streams, the stream objects and the temp file as they are;
\* the first feature gets its stream in the current container, whose other
\* contents stay; an unknown feature beside known ones, when the call
\* returns, has closed the container and opened another, so that every
\* stream object known before belongs to the closed container.
C29_RemuxWhenUnknownAndNotFirst ==
    (traj.mode = "w" /\ traj.cont = "open") =>
        \A new_feature \in Names \cup {NameP} :
            LET s == on_new_stream(State, new_feature, "rawvideo",
                                   from_data(V1), now)
                known == new_feature \in DOMAIN traj.f2s
                first == DOMAIN traj.f2s = {}
            IN  /\ known => s = State
                /\ (~known /\ first) =>
                      /\ Ok(s)
                      /\ Len(Live(s).streams) = Len(Live(State).streams) + 1
                      /\ DOMAIN s.f2s = {new_feature} /\ Stale(s.f2s) = {}
                      /\ s.file = fs.file /\ s.temp = fs.temp
                      /\ s.enc = traj.enc
                /\ (~known /\ ~first /\ Ok(s)) =>
                      /\ DOMAIN s.f2s = DOMAIN traj.f2s \cup {new_feature}
                      /\ Stale(s.f2s) = DOMAIN traj.f2s
                      /\ s.enc = NoBufs

\* tests/test_base.py lines 21-31: two features added, one remux: two
\* streams, the first feature's stream object stale, the second's current
C29_Witness ==
    /\ ret.op = "add" /\ ret.err = "none"
    /\ traj.mode = "w" /\ traj.cont = "open"
    /\ Cardinality(DOMAIN traj.f2s) = 2
    /\ Cardinality(Stale(traj.f2s)) = 1
    /\ Len(fs.file.streams) = 2

---------------------------------------------------------------------------
(* The close-time transcoder. *)

\* the codec of the stream of container c that carries feature key
CodecOf(c, key) ==
    LET i == CHOOSE j \in 1..Len(c.streams) :
                 c.streams[j].meta["FEATURE_NAME"] = key
    IN  c.streams[i].codec

\* C30: in the transcoding of close a packet is deserialized and encoded
\* again only when its source stream was rawvideo and the final codec is a
\* video codec; every other packet is muxed as it is; every packet keeps
\* its pts on the stream of the same feature.  For every open writer whose
\* closed file holds packets, _transcode_pickled_images returns, and each
\* feature has as many packets as before with the same pts, and the same
\* bodies unless its stream went from rawvideo to a video codec.
C30_TranscodeOnlyPickledImages ==
    (traj.mode = "w" /\ traj.cont = "open" /\ ~traj.is_closed) =>
        LET closed == flush_and_close(State, now)
            old == closed.file
            s == transcode_pickled_images(closed, now)
        IN  (old.exists /\ old.pkts # <<>>) =>
                /\ Ok(s)
                /\ \A key \in FeatureNames(old) :
                      LET before == PacketsOf(old, key, 1)
                          after == PacketsOf(s.file, key, 1)
                          encoded == /\ CodecOf(old, key) = "rawvideo"
                                     /\ IsVideo(CodecOf(s.file, key))
                      IN  /\ Len(after) = Len(before)
                          /\ \A i \in 1..Len(before) :
                                /\ after[i].pts = before[i].pts
                                /\ ~encoded => after[i].body = before[i].body

---------------------------------------------------------------------------
(* Instances on distinct paths. *)

\* the file at self.path + ".temp" is the container the other instance
\* wrote there
OthersFile(f) == f.temp.exists /\ FeatureNames(f.temp) = {NameB}

\* C26: instances on distinct file paths do not interfere: no add or close
\* of this instance reads or writes the container file of an instance on
\* another path, so that file is after the call what it was before.
C26_DistinctPathsIsolated ==
    [][((AddClashing \/ Close) /\ OthersFile(fs)) => fs'.temp = fs.temp]_vars

---------------------------------------------------------------------------
(* The codecs of a compacted file. *)

\* C31: after close with compact=True the codec of each stream is what the
\* Codec Selector answers for the FeatureType in the stream's FEATURE_TYPE
\* metadata and the lossy flag, also when values of different shapes were
\* added to one feature: so for the file every close(compact=True) of an
\* open writer leaves when it returns.
C31_CodecFollowsStoredType ==
    (traj.mode = "w" /\ traj.cont = "open" /\ ~traj.is_closed) =>
        LET s == close(State, TRUE, now)
        IN  (Ok(s) /\ s.file.exists) =>
                \A i \in 1..Len(s.file.streams) :
                    s.file.streams[i].codec =
                        get_encoding_of_feature(traj.lossy,
                            from_str(s.file.streams[i].meta["FEATURE_TYPE"]))

---------------------------------------------------------------------------
(* The stream objects after a remux. *)

\* C32: after a stream-adding remux a value added to a feature known
\* before is muxed into the stream of the live container that carries the
\* feature's name.  For every open writer and every feature in its
\* feature-to-stream map: the map's stream has the index of the stream of
\* that name in the live container, and an add of a value of the stream's
\* kind returns, with one more packet on that stream when the stream is
\* rawvideo.
C32_KnownFeatureStreamIsLive ==
    (traj.mode = "w" /\ traj.cont = "open" /\ ~traj.is_closed) =>
        \A feature \in DOMAIN traj.f2s :
            LET stream == traj.f2s[feature]
                data == IF IsVideo(stream.codec) THEN VImg ELSE V1
                s == add(State, feature, Leaf(data), NoTs, now)
            IN  /\ stream.idx \in 1..Len(Live(State).streams)
                /\ Live(State).streams[stream.idx].meta["FEATURE_NAME"] = feature
                /\ Ok(s)
                /\ ~IsVideo(stream.codec) =>
                      Len(PacketsOf(Live(s), feature, 1)) =
                          Len(PacketsOf(Live(State), feature, 1)) + 1

---------------------------------------------------------------------------
(* The preallocated arrays of a load. *)

\* the file at the path can be opened and its second stream holds more
\* packets than its first
LaterStreamLonger ==
    /\ open_read_err(fs.file) = "none"
    /\ Len(fs.file.streams) >= 2
    /\ get_length_of_stream(fs.file, 2) > get_length_of_stream(fs.file, 1)

\* C33: load never writes outside its preallocated arrays: whatever file
\* is at the path, _load_from_container, whether it returns or raises, has
\* stored for every feature at most N values, N being the probed length of
\* the first stream, in an array that still has N elements.
C33_StoresWithinPreallocation ==
    (traj.mode \in {"r", "w"} /\ ~Busy /\ open_read_err(fs.file) = "none") =>
        \A g \in Garbage, noise \in Noise :
            LET r == load_from_container(State, g, noise)
                N == get_length_of_stream(fs.file, 1)
            IN  \A feature \in DOMAIN r.dec.np :
                    /\ Len(r.dec.np[feature].elems) = N
                    /\ r.dec.d[feature] <= N

\* a load has met a file whose second stream is longer than its first: the
\* store past the end of the array raised IndexError
C33_Witness ==
    /\ ret.op = "load" /\ ret.err = "IndexError"
    /\ LaterStreamLonger

---------------------------------------------------------------------------
(* A path written again after it was loaded. *)

\* the loaded map val holds, under every feature name of one part, the
\* array np_cache holds for it, and no other name of one part
SameTopLevel(val, np_cache) ==
    /\ \A k \in DOMAIN np_cache :
          Len(k) = 1 => (k \in DOMAIN val /\ val[k] = ArrNode(np_cache[k]))
    /\ \A k \in DOMAIN val : ~val[k].isgroup => k \in DOMAIN np_cache

\* C34: load returns the contents of the container now at the path, also
\* after the path was loaded, written again by a new writer and closed:
\* whenever the container at the path can be decoded, what load returns
\* is, for the features of one-part names, what some decode of that
\* container returns.
C34_LoadReturnsCurrentContainer ==
    (traj.mode \in {"r", "w"} /\ ~Busy /\ open_read_err(fs.file) = "none") =>
        \A g \in Garbage, noise \in Noise :
            LET r == load(State, g, noise)
            IN  r.err = "none" =>
                    \E g2 \in Garbage, noise2 \in Noise :
                        LET d == load_from_container(State, g2, noise2).dec
                        IN  d.err = "none" /\ SameTopLevel(r.val, d.np)

---------------------------------------------------------------------------
(* The cache file is complete. *)

\* C35: whenever the decoded cache file exists it holds a dataset for
\* every feature of the trajectory: no cache write that failed has left a
\* cache file with fewer datasets than the container at the path has
\* features, for a later load to serve.
C35_CacheHoldsEveryFeature ==
    (fs.cache.exists /\ fs.cache.readable /\ fs.file.exists) =>
        FeatureNames(fs.file) \subseteq DOMAIN fs.cache.data

---------------------------------------------------------------------------
(* Two readers of one file. *)

\* C36: two readers of one trajectory file whose load() calls interleave
\* both return the complete decoded data: a load that runs while the other
\* reader is between creating the cache file and completing it returns
\* without an error a map with every feature of the file.
C36_InterleavedLoadsComplete ==
    [][(OtherLoad /\ ret.op = "load_begin") =>
          /\ ret'.err = "none"
          /\ \A feature \in FeatureNames(fs.file) :
                <<feature[1]>> \in DOMAIN ret'.val]_vars

---------------------------------------------------------------------------
(* Written data across remux failures. *)

\* how many packets of feature key the files f hold: packet number j of
\* the feature is in the file at the path or in the temp file exactly when
\* j is at most this
Held(f, key) ==
    LET at_path == IF key \in FeatureNames(f.file)
                   THEN Len(PacketsOf(f.file, key, 1)) ELSE 0
        at_temp == IF key \in FeatureNames(f.temp)
                   THEN Len(PacketsOf(f.temp, key, 1)) ELSE 0
    IN  IF at_path >= at_temp THEN at_path ELSE at_temp

\* C37: no written data is lost across remux failures: no add, add_by_dict
\* or close of a writer whose own container wrote the file at the path,
\* a call retried after a failed remux included, leaves a packet of any
\* feature in neither the file at the path nor the temp file.
C37_PacketsSurviveRetries ==
    [][((Add \/ AddByDict \/ Close) /\ traj.mode = "w"
            /\ (traj.started \/ traj.cont = "closed")) =>
          \A key \in Names : Held(fs', key) >= Held(fs, key)]_vars

====
